---- MODULE Spec2Model ----
(***************************************************************************)
(* Memory-overlapped T5 inference core (bminf/arch/t5/model.py) and the    *)
(* CPM2 task drivers (bminf/models/cpm2.py).                               *)
(*                                                                         *)
(* A pass (encode or decode_step) is run by two host threads: the calc     *)
(* driver (the caller's thread) and a loader thread started by the pass.   *)
(* They meet on a threading.Barrier(2); each owns one GPU stream.  The     *)
(* barrier follows CPython's threading.Barrier: _state is 0 (filling),     *)
(* 1 (draining), -1 (resetting), -2 (broken); _count is the number of      *)
(* threads inside wait().                                                  *)
(***************************************************************************)
EXTENDS Integers, Sequences, FiniteSets, TLC

\* ---- bounds of the model ------------------------------------------------
MaxLayers == 5
MaxDecoderLength == 2
LayerBytes == 1
MaxLayerBytes == 2
MaxDynamicMemory == 1
MaxMemoryLimit == 24
FillLayers == 2
MaxSpans == 2
MaxTokens == 3
MaxPieces == 3
MaxPosition == 1
MaxGivenSpans == 2
FailLayers == 3

LayerCounts == 1..MaxLayers

\* overlap_allocator_status starts as [None, None]; tags are never 0
NoneTag == 0

\* pre_processing accepts at most 16 spans
MaxSpanCount == 16

VARIABLES
    model,                      \* the constructed T5 object (fields of self)
    overlap_allocator_status,   \* self.overlap_allocator_status[0..1]
    ring,                       \* layers holding a slice of overlap_allocator[idx]
    param_pool,                 \* layers holding a slice of parameter_allocator
    copied,                     \* layers whose scheduled host->device copy has run
    loadQ,                      \* copies scheduled on load_stream, not yet run
    calcQ,                      \* layer kernels scheduled on calc_stream, not yet run
    barrier,                    \* the pass's threading.Barrier(2): [count, state]
    calc,                       \* calc driver: [pc, kind, i, step_pos]
    loader,                     \* loader thread: [pc, i, j]
    ctx,                        \* the request's T5InferenceContext
    pass,                       \* bookkeeping of the current pass
    raised,                     \* error the last public call ended with
    req,                        \* task driver (fill_blank) in progress
    cons,                       \* T5.__init__ in progress: its locals and pools
    orphan                      \* loader thread of a pass that ended by an exception

vars == <<model, overlap_allocator_status, ring, param_pool, copied, loadQ, calcQ,
          barrier, calc, loader, ctx, pass, raised, req, cons, orphan>>

Min(a, b) == IF a < b THEN a ELSE b
Max(a, b) == IF a > b THEN a ELSE b

Range(s) == {s[k] : k \in 1..Len(s)}

\* ---- the overlap planner (T5.__init__) ----------------------------------

\* self.max_overlap_layers
MaxOverlapLayers(c) == Max(c.NUM_ENCODER_LAYERS, c.NUM_DECODER_LAYERS)

\* overlap_layers taken from OVERLAP_LAYERS even when overlap is disabled
OverlapLayers_IgnoreFlag(c) == Min(c.OVERLAP_LAYERS, MaxOverlapLayers(c))

\* self.overlap_layers
OverlapLayers(c) ==
    IF c.MEMORY_OVERLAP THEN Min(c.OVERLAP_LAYERS, MaxOverlapLayers(c))
    ELSE MaxOverlapLayers(c)

\* mx_size: the largest encoder / decoder layer
MxSize(c) == Max(c.enc_nbytes, c.dec_nbytes)

\* overlap_size with the 3W >= M case counting two windows instead of three
OverlapSize_ShortThirdCase(c) ==
    LET W == OverlapLayers(c)
        M == MaxOverlapLayers(c)
        s == MxSize(c)
    IN  IF W >= M THEN s * M * 2
        ELSE IF W * 2 >= M THEN s * W * 2 + (M - W) * s
        ELSE IF W * 3 >= M THEN s * W * 2 + (M - W * 2) * s
        ELSE s * W * 4

\* overlap_size of the memory check
OverlapSize(c) ==
    LET W == OverlapLayers(c)
        M == MaxOverlapLayers(c)
        s == MxSize(c)
    IN  IF W >= M THEN s * M * 2
        ELSE IF W * 2 >= M THEN s * W * 2 + (M - W) * s
        ELSE IF W * 3 >= M THEN s * W * 3 + (M - W * 2) * s
        ELSE s * W * 4

\* self.nbytes: every parameter of the model
TotalBytes(c) ==
    c.other_nbytes + c.NUM_ENCODER_LAYERS * c.enc_nbytes
    + (IF c.ENCODER_ONLY THEN 0 ELSE c.NUM_DECODER_LAYERS * c.dec_nbytes)

\* other_size = self.nbytes - self.encoder.nbytes - self.decoder.nbytes
OtherSize(c) == c.other_nbytes

\* the memory check without the DYNAMIC_MEMORY reserve
RequiredBytes_NoDynamic(c) ==
    IF c.MEMORY_OVERLAP THEN OverlapSize(c) + OtherSize(c)
    ELSE TotalBytes(c)

\* what the memory check compares with MEMORY_LIMIT
RequiredBytes(c) ==
    IF c.MEMORY_OVERLAP THEN OverlapSize(c) + OtherSize(c) + c.DYNAMIC_MEMORY
    ELSE TotalBytes(c) + c.DYNAMIC_MEMORY

\* capacity of parameter_allocator
ParameterAllocatorSize(c) ==
    IF c.MEMORY_OVERLAP THEN OtherSize(c) + MxSize(c) * OverlapLayers(c) * 2
    ELSE TotalBytes(c)

\* mutant: in the third case the two ring pools are created in the other order
OverlapAllocatorSize_SwappedThirdCase(c) ==
    LET W == OverlapLayers(c)
        M == MaxOverlapLayers(c)
        s == MxSize(c)
    IN  IF W >= M THEN <<-1, -1>>
        ELSE IF W * 2 >= M THEN <<-1, (M - W) * s>>
        ELSE IF W * 3 >= M THEN <<W * s, (M - W * 2) * s>>
        ELSE <<W * s, W * s>>

\* capacities of overlap_allocator[0..1]; -1 stands for None (no pool)
OverlapAllocatorSize(c) ==
    LET W == OverlapLayers(c)
        M == MaxOverlapLayers(c)
        s == MxSize(c)
    IN  IF W >= M THEN <<-1, -1>>
        ELSE IF W * 2 >= M THEN <<-1, (M - W) * s>>
        ELSE IF W * 3 >= M THEN <<(M - W * 2) * s, W * s>>
        ELSE <<W * s, W * s>>

\* capacity of variable_allocator
VariableAllocatorSize(c) ==
    IF c.MEMORY_OVERLAP THEN c.MEMORY_LIMIT - OtherSize(c) - OverlapSize(c)
    ELSE c.MEMORY_LIMIT - TotalBytes(c)

\* layers moved to parameter_allocator by the constructor
PermanentLayers(c) ==
    IF c.MEMORY_OVERLAP
    THEN {<<"enc", i>> : i \in 0..(Min(OverlapLayers(c), c.NUM_ENCODER_LAYERS) - 1)}
         \cup {<<"dec", i>> : i \in 0..(Min(OverlapLayers(c), c.NUM_DECODER_LAYERS) - 1)}
    ELSE {<<"enc", i>> : i \in 0..(c.NUM_ENCODER_LAYERS - 1)}
         \cup (IF c.ENCODER_ONLY THEN {}
               ELSE {<<"dec", i>> : i \in 0..(c.NUM_DECODER_LAYERS - 1)})

\* the overlap branch reads self.decoder (the mx_size loop, other_size), an
\* attribute that is set only when ENCODER_ONLY is false
DecoderUnset(c) == c.MEMORY_OVERLAP /\ c.ENCODER_ONLY

\* the clean-up loop indexes encoder[i] and decoder[i] for every i < overlap_layers
CleanupIndexesInRange(c) ==
    c.MEMORY_OVERLAP =>
        /\ OverlapLayers(c) <= c.NUM_ENCODER_LAYERS
        /\ OverlapLayers(c) <= c.NUM_DECODER_LAYERS

\* how T5.__init__ ends for configuration c
ConstructionOutcome(c) ==
    IF DecoderUnset(c) THEN "attribute_error"
    ELSE IF RequiredBytes(c) > c.MEMORY_LIMIT THEN "memory limit not enough"
    ELSE IF ~CleanupIndexesInRange(c) THEN "index_error"
    ELSE "ok"

\* the fields of self after a successful construction
Built(c) ==
    [ num_encoder        |-> c.NUM_ENCODER_LAYERS,
      num_decoder        |-> c.NUM_DECODER_LAYERS,
      overlap_layers     |-> OverlapLayers(c),
      memory_overlap     |-> c.MEMORY_OVERLAP,
      encoder_only       |-> c.ENCODER_ONLY,
      max_decoder_length |-> c.MAX_DECODER_LENGTH,
      nbytes             |-> [enc |-> c.enc_nbytes, dec |-> c.dec_nbytes],
      overlap_allocator  |-> OverlapAllocatorSize(c) ]


\* ---- a pass: shared helpers ---------------------------------------------

Kinds == {"enc", "dec"}

\* range(self.num_encoder) / range(self.num_decoder)
NumLayers(kind) == IF kind = "enc" THEN model.num_encoder ELSE model.num_decoder

\* mutant: decoder tags are not negated
Tag_Unsigned(kind, i) == i + 1

\* the status tag of window boundary i: i + 1 (encoder), -(i + 1) (decoder)
Tag(kind, i) == IF kind = "enc" THEN i + 1 ELSE -(i + 1)

\* mutant: the pool is chosen by the window of the boundary itself
OverlapIdx_OwnWindow(i) == (i \div model.overlap_layers) % 2

\* overlap_idx = ((i + self.overlap_layers) // self.overlap_layers) % 2
OverlapIdx(i) == ((i + model.overlap_layers) \div model.overlap_layers) % 2

\* bytes allocated from overlap_allocator[idx] since its last reset
RingUsed(idx) ==
    Cardinality({l \in ring[idx] : l[1] = "enc"}) * model.nbytes.enc
    + Cardinality({l \in ring[idx] : l[1] = "dec"}) * model.nbytes.dec

\* the pool a layer's recorded slice lies in: 0 the parameter pool, 1..2 ring
\* pool idx + 1, -1 a slice invalidated by a reset
SliceOf(l) ==
    IF l \in param_pool THEN 0
    ELSE IF l \in ring[1] THEN 1
    ELSE IF l \in ring[2] THEN 2
    ELSE -1

NoThread == [pc |-> "none", i |-> 0, j |-> 0]
IdleCalc == [pc |-> "idle", kind |-> "enc", i |-> 0, step_pos |-> -1]
NoPass   == [rendezvous |-> 0, resets |-> 0, uploads |-> 0,
             status0 |-> <<NoneTag, NoneTag>>, order |-> <<>>, prev |-> "none"]
NoCtx    == [exists |-> FALSE, ready |-> FALSE, step_pos |-> -1, calls |-> 0,
             attrs |-> {}, allocated |-> {}]
NoReq    == [pc |-> "none"]
NoCons   == [pc |-> "none"]
NoOrphan == [pc |-> "none", i |-> 0, j |-> 0, kind |-> "enc",
             barrier |-> [count |-> 0, state |-> 0]]

Terminated == {"exited", "broken", "crashed", "failed"}

\* threading.Barrier(2); Thread(target=..._loader).start(); first loop test
StartPass(kind, sp) ==
    /\ barrier' = [count |-> 0, state |-> 0]
    /\ loader' = [pc |-> "sync", i |-> 0, j |-> 0]
    /\ calc' = [pc |-> "sync", kind |-> kind, i |-> 0, step_pos |-> sp]
    /\ pass' = [rendezvous |-> 0, resets |-> 0, uploads |-> 0,
                status0 |-> overlap_allocator_status, order |-> <<>>,
                prev |-> IF pass.rendezvous = 0 THEN "none" ELSE calc.kind]

\* Barrier._exit after a thread has left wait(): the last one clears
\* a draining or resetting barrier
BarrierExit(count, state) ==
    [count |-> count, state |-> IF count = 0 /\ state \in {-1, 1} THEN 0 ELSE state]

\* Barrier.wait() up to the point where the caller either releases the
\* barrier (second party) or starts waiting (first party)
BarrierCanEnter == barrier.state \notin {-1, 1}
BarrierArrive ==
    IF barrier.count + 1 = 2
    THEN [count |-> barrier.count, state |-> 1]
    ELSE [count |-> barrier.count + 1, state |-> barrier.state]
BarrierReleases == barrier.count + 1 = 2

\* Barrier.reset()
BarrierReset ==
    IF barrier.count > 0
    THEN [count |-> barrier.count,
          state |-> IF barrier.state \in {0, -2} THEN -1 ELSE barrier.state]
    ELSE [count |-> barrier.count, state |-> 0]

\* ---- the calc driver (T5.encode / T5.decode_step) -----------------------

\* the loop test before layer i: a window boundary synchronizes first
CalcPcAt(kind, i) ==
    IF i >= NumLayers(kind) THEN "final"
    ELSE IF i % model.overlap_layers = 0 THEN "sync"
    ELSE "forward"

\* the calc driver without calc_stream.synchronize() before the rendezvous
CalcSync_NoSynchronize ==
    /\ calc.pc = "sync"
    /\ calc' = [calc EXCEPT !.pc = "bwait"]
    /\ UNCHANGED <<model, overlap_allocator_status, ring, param_pool, copied, loadQ,
                   calcQ, barrier, loader, ctx, pass, raised, req, cons, orphan>>

\* calc_stream.synchronize() at a window boundary
CalcSync ==
    /\ calc.pc = "sync"
    /\ calcQ = <<>>
    /\ calc' = [calc EXCEPT !.pc = "bwait"]
    /\ UNCHANGED <<model, overlap_allocator_status, ring, param_pool, copied, loadQ,
                   calcQ, barrier, loader, ctx, pass, raised, req, cons, orphan>>

\* barrier.wait(): arrive
CalcBarrierWait ==
    /\ calc.pc = "bwait"
    /\ BarrierCanEnter
    /\ barrier' = BarrierArrive
    /\ calc' = [calc EXCEPT !.pc = IF BarrierReleases THEN "breset" ELSE "bwaiting"]
    /\ pass' = [pass EXCEPT !.rendezvous = IF BarrierReleases THEN @ + 1 ELSE @]
    /\ UNCHANGED <<model, overlap_allocator_status, ring, param_pool, copied, loadQ,
                   calcQ, loader, ctx, raised, req, cons, orphan>>

\* barrier.wait(): woken by the loader's arrival
CalcBarrierWake ==
    /\ calc.pc = "bwaiting"
    /\ barrier.state = 1
    /\ barrier' = BarrierExit(barrier.count - 1, barrier.state)
    /\ calc' = [calc EXCEPT !.pc = "breset"]
    /\ pass' = [pass EXCEPT !.rendezvous = @ + 1]
    /\ UNCHANGED <<model, overlap_allocator_status, ring, param_pool, copied, loadQ,
                   calcQ, loader, ctx, raised, req, cons, orphan>>

\* barrier.reset()
CalcBarrierReset ==
    /\ calc.pc = "breset"
    /\ barrier' = BarrierReset
    /\ calc' = [calc EXCEPT !.pc = "forward"]
    /\ UNCHANGED <<model, overlap_allocator_status, ring, param_pool, copied, loadQ,
                   calcQ, loader, ctx, pass, raised, req, cons, orphan>>

\* self.encoder[i].forward(...) / self.decoder[i].forward(..., step_pos, ...)
CalcForward ==
    /\ calc.pc = "forward"
    /\ calcQ' = Append(calcQ, <<calc.kind, calc.i, SliceOf(<<calc.kind, calc.i>>)>>)
    /\ pass' = [pass EXCEPT !.order = Append(@, <<calc.i, calc.step_pos>>)]
    /\ calc' = [calc EXCEPT !.i = @ + 1, !.pc = CalcPcAt(calc.kind, calc.i + 1)]
    /\ UNCHANGED <<model, overlap_allocator_status, ring, param_pool, copied, loadQ,
                   barrier, loader, ctx, raised, req, cons, orphan>>

\* final layer norm (and lm_head), then calc_stream.synchronize()
CalcFinal ==
    /\ calc.pc = "final"
    /\ calcQ = <<>>
    /\ calc' = [calc EXCEPT !.pc = "join"]
    /\ UNCHANGED <<model, overlap_allocator_status, ring, param_pool, copied, loadQ,
                   calcQ, barrier, loader, ctx, pass, raised, req, cons, orphan>>

\* load_thread.join(); return
CalcJoin ==
    /\ calc.pc = "join"
    /\ loader.pc \in Terminated
    /\ calc' = [calc EXCEPT !.pc = "idle"]
    /\ loader' = NoThread
    /\ ctx' = IF calc.kind = "enc"
              THEN [NoCtx EXCEPT !.exists = TRUE]
              ELSE ctx
    /\ UNCHANGED <<model, overlap_allocator_status, ring, param_pool, copied, loadQ,
                   calcQ, barrier, pass, raised, req, cons, orphan>>

\* ---- the loader thread (T5.encode_loader / T5.decode_loader) ------------

\* the for loop after boundary i: the next i with i % overlap_layers == 0
LoaderAfter(i) ==
    IF i + model.overlap_layers < NumLayers(calc.kind)
    THEN [pc |-> "sync", i |-> i + model.overlap_layers, j |-> 0]
    ELSE [pc |-> "exited", i |-> i, j |-> 0]

\* the loader without load_stream.synchronize() before the rendezvous
LoadSync_NoSynchronize ==
    /\ loader.pc = "sync"
    /\ loader' = [loader EXCEPT !.pc = "bwait"]
    /\ UNCHANGED <<model, overlap_allocator_status, ring, param_pool, copied, loadQ,
                   calcQ, barrier, calc, ctx, pass, raised, req, cons, orphan>>

\* load_stream.synchronize()
LoadSync ==
    /\ loader.pc = "sync"
    /\ loadQ = <<>>
    /\ loader' = [loader EXCEPT !.pc = "bwait"]
    /\ UNCHANGED <<model, overlap_allocator_status, ring, param_pool, copied, loadQ,
                   calcQ, barrier, calc, ctx, pass, raised, req, cons, orphan>>

\* barrier.wait(): arrive
LoadBarrierWait ==
    /\ loader.pc = "bwait"
    /\ BarrierCanEnter
    /\ barrier' = BarrierArrive
    /\ loader' = [loader EXCEPT !.pc = IF BarrierReleases THEN "check" ELSE "bwaiting"]
    /\ UNCHANGED <<model, overlap_allocator_status, ring, param_pool, copied, loadQ,
                   calcQ, calc, ctx, pass, raised, req, cons, orphan>>

\* barrier.wait(): woken, by the calc driver's arrival (state 1) or by its
\* reset() (state -1, BrokenBarrierError ends the thread)
LoadBarrierWake ==
    /\ loader.pc = "bwaiting"
    /\ barrier.state # 0
    /\ barrier' = BarrierExit(barrier.count - 1, barrier.state)
    /\ loader' = [loader EXCEPT !.pc = IF barrier.state < 0 THEN "broken" ELSE "check"]
    /\ UNCHANGED <<model, overlap_allocator_status, ring, param_pool, copied, loadQ,
                   calcQ, calc, ctx, pass, raised, req, cons, orphan>>

\* mutant: the status tag is not consulted
LoadCheck_NoTagTest ==
    /\ loader.pc = "check"
    /\ loader' =
         IF loader.i + model.overlap_layers < NumLayers(calc.kind)
         THEN [loader EXCEPT !.pc = "reset"]
         ELSE LoaderAfter(loader.i)
    /\ UNCHANGED <<model, overlap_allocator_status, ring, param_pool, copied, loadQ,
                   calcQ, barrier, calc, ctx, pass, raised, req, cons, orphan>>

\* if i + W < L: compare the target slot's status tag (equal: continue)
LoadCheck ==
    /\ loader.pc = "check"
    /\ loader' =
         IF loader.i + model.overlap_layers < NumLayers(calc.kind)
            /\ overlap_allocator_status[OverlapIdx(loader.i) + 1] # Tag(calc.kind, loader.i)
         THEN [loader EXCEPT !.pc = "reset"]
         ELSE LoaderAfter(loader.i)
    /\ UNCHANGED <<model, overlap_allocator_status, ring, param_pool, copied, loadQ,
                   calcQ, barrier, calc, ctx, pass, raised, req, cons, orphan>>

\* mutant: the upload starts at the boundary itself, not one window ahead
LoadReset_FromBoundary ==
    /\ loader.pc = "reset"
    /\ LET idx == OverlapIdx(loader.i) IN
       IF model.overlap_allocator[idx + 1] < 0
       THEN /\ loader' = [loader EXCEPT !.pc = "crashed"]
            /\ UNCHANGED <<ring, copied, pass>>
       ELSE /\ ring' = [ring EXCEPT ![idx + 1] = {}]
            /\ copied' = copied \ ring[idx + 1]
            /\ pass' = [pass EXCEPT !.resets = @ + 1]
            /\ loader' = [loader EXCEPT !.pc = "upload", !.j = loader.i]
    /\ UNCHANGED <<model, overlap_allocator_status, param_pool, loadQ, calcQ, barrier,
                   calc, ctx, raised, req, cons, orphan>>

\* olp_allocator = self.overlap_allocator[overlap_idx]; olp_allocator.reset()
LoadReset ==
    /\ loader.pc = "reset"
    /\ LET idx == OverlapIdx(loader.i) IN
       IF model.overlap_allocator[idx + 1] < 0
       THEN /\ loader' = [loader EXCEPT !.pc = "crashed"]
            /\ UNCHANGED <<ring, copied, pass>>
       ELSE /\ ring' = [ring EXCEPT ![idx + 1] = {}]
            /\ copied' = copied \ ring[idx + 1]
            /\ pass' = [pass EXCEPT !.resets = @ + 1]
            /\ loader' = [loader EXCEPT !.pc = "upload",
                                        !.j = loader.i + model.overlap_layers]
    /\ UNCHANGED <<model, overlap_allocator_status, param_pool, loadQ, calcQ, barrier,
                   calc, ctx, raised, req, cons, orphan>>

\* last layer index (exclusive) of the window uploaded at boundary i
UploadEnd(i) == Min(i + model.overlap_layers * 2, NumLayers(calc.kind))

\* self.encoder[j].to_device(olp_allocator, load_stream): the layer takes a
\* slice of the ring pool (and gives up the slice it had) and its copy is
\* scheduled on load_stream
LoadUpload ==
    /\ loader.pc = "upload"
    /\ LET idx == OverlapIdx(loader.i)
           l   == <<calc.kind, loader.j>>
       IN  IF RingUsed(idx + 1) + model.nbytes[calc.kind] > model.overlap_allocator[idx + 1]
           THEN /\ loader' = [loader EXCEPT !.pc = "crashed"]
                /\ UNCHANGED <<ring, param_pool, copied, loadQ, pass>>
           ELSE /\ ring' = [ring EXCEPT ![idx + 1] = @ \cup {l}]
                /\ param_pool' = param_pool \ {l}
                /\ copied' = copied \ {l}
                /\ loadQ' = Append(loadQ, l)
                /\ pass' = [pass EXCEPT !.uploads = @ + 1]
                /\ loader' = [loader EXCEPT
                                !.j = @ + 1,
                                !.pc = IF loader.j + 1 < UploadEnd(loader.i)
                                       THEN "upload" ELSE "settag"]
    /\ UNCHANGED <<model, overlap_allocator_status, calcQ, barrier, calc,
                   ctx, raised, req, cons, orphan>>

\* self.overlap_allocator_status[overlap_idx] = i + 1 (or -(i + 1))
LoadSetStatus ==
    /\ loader.pc = "settag"
    /\ overlap_allocator_status' =
         [overlap_allocator_status EXCEPT ![OverlapIdx(loader.i) + 1] = Tag(calc.kind, loader.i)]
    /\ loader' = LoaderAfter(loader.i)
    /\ UNCHANGED <<model, ring, param_pool, copied, loadQ, calcQ, barrier, calc, ctx,
                   pass, raised, req, cons, orphan>>

\* ---- the GPU ------------------------------------------------------------

\* the load stream runs its oldest scheduled copy
GpuCopy ==
    /\ loadQ # <<>>
    /\ copied' = copied \cup {Head(loadQ)}
    /\ loadQ' = Tail(loadQ)
    /\ UNCHANGED <<model, overlap_allocator_status, ring, param_pool, calcQ, barrier,
                   calc, loader, ctx, pass, raised, req, cons, orphan>>

\* the calc stream runs its oldest scheduled layer kernel
GpuCalc ==
    /\ calcQ # <<>>
    /\ calcQ' = Tail(calcQ)
    /\ UNCHANGED <<model, overlap_allocator_status, ring, param_pool, copied, loadQ,
                   barrier, calc, loader, ctx, pass, raised, req, cons, orphan>>

PassStep ==
    \/ CalcSync \/ CalcBarrierWait \/ CalcBarrierWake \/ CalcBarrierReset
    \/ CalcForward \/ CalcFinal \/ CalcJoin
    \/ LoadSync \/ LoadBarrierWait \/ LoadBarrierWake \/ LoadCheck
    \/ LoadReset \/ LoadUpload \/ LoadSetStatus
    \/ GpuCopy \/ GpuCalc

\* ---- public operations of the core --------------------------------------

\* T5.encode(input_idx, input_length)
Encode ==
    /\ calc.pc = "idle"
    /\ req.pc = "none"
    /\ StartPass("enc", -1)
    /\ raised' = "none"
    /\ UNCHANGED <<model, overlap_allocator_status, ring, param_pool, copied, loadQ,
                   calcQ, ctx, req, cons, orphan>>

\* the tensors _init_decoder_context takes from the activation pool and the
\* attributes it sets on the context
DecoderTensors == {"encoder_layers_kv", "decoder_position_bias", "past_kv", "encoder_mask"}

\* mutant: the encoder-only test comes after the tensors are allocated
DecoderContext_CheckLast(c) ==
    IF model.encoder_only
    THEN [ctx |-> [c EXCEPT !.allocated = DecoderTensors], error |-> "T5-encoder only"]
    ELSE [ctx |-> [c EXCEPT !.ready = TRUE, !.step_pos = 0, !.calls = 0,
                            !.allocated = DecoderTensors,
                            !.attrs = DecoderTensors \cup {"step_pos"}],
          error |-> "none"]

\* the body of T5._init_decoder_context: the context it leaves and the error
\* it raises
DecoderContext(c) ==
    IF model.encoder_only
    THEN [ctx |-> c, error |-> "T5-encoder only"]
    ELSE [ctx |-> [c EXCEPT !.ready = TRUE, !.step_pos = 0, !.calls = 0,
                            !.allocated = DecoderTensors,
                            !.attrs = DecoderTensors \cup {"step_pos"}],
          error |-> "none"]

\* T5._init_decoder_context(ctx)
InitDecoderContext ==
    /\ calc.pc = "idle"
    /\ req.pc = "none"
    /\ ctx.exists
    /\ raised' = DecoderContext(ctx).error
    /\ ctx' = DecoderContext(ctx).ctx
    /\ UNCHANGED <<model, overlap_allocator_status, ring, param_pool, copied, loadQ,
                   calcQ, barrier, calc, loader, pass, req, cons, orphan>>

\* decode_step reading step_pos after the increment
DecodeStepBegin_IncrementFirst ==
    /\ StartPass("dec", ctx.step_pos + 1)
    /\ ctx' = [ctx EXCEPT !.step_pos = @ + 1, !.calls = @ + 1]
    /\ raised' = "none"

\* the first statements of T5.decode_step: step_pos = ctx.step_pos;
\* ctx.step_pos += 1; the barrier and the loader thread
DecodeStepBegin ==
    /\ StartPass("dec", ctx.step_pos)
    /\ ctx' = [ctx EXCEPT !.step_pos = @ + 1, !.calls = @ + 1]
    /\ raised' = "none"

\* T5.decode_step(ctx, inputs).  The code has no test of step_pos; the guard
\* on step_pos only keeps the counter finite: it still admits the call made
\* with step_pos = max_decoder_length, the first one past the cache.
DecodeStep ==
    /\ calc.pc = "idle"
    /\ req.pc = "none"
    /\ ctx.ready
    /\ ctx.step_pos <= model.max_decoder_length
    /\ DecodeStepBegin
    /\ UNCHANGED <<model, overlap_allocator_status, ring, param_pool, copied, loadQ,
                   calcQ, req, cons, orphan>>

\* ---- the specification of the core --------------------------------------

\* configurations whose parameters fit: layers of LayerBytes..MaxLayerBytes,
\* no reserve
Configurations ==
    [ NUM_ENCODER_LAYERS : LayerCounts, NUM_DECODER_LAYERS : LayerCounts,
      OVERLAP_LAYERS : LayerCounts, MEMORY_OVERLAP : BOOLEAN, ENCODER_ONLY : BOOLEAN,
      MAX_DECODER_LENGTH : {MaxDecoderLength},
      enc_nbytes : LayerBytes..MaxLayerBytes, dec_nbytes : LayerBytes..MaxLayerBytes,
      other_nbytes : {1},
      DYNAMIC_MEMORY : {0}, MEMORY_LIMIT : {1 + 2 * MaxLayers * MaxLayerBytes} ]

\* OVERLAP_LAYERS is read only with MEMORY_OVERLAP, where larger values act
\* as M.  The overlap branch of the constructor reads self.decoder, which is
\* set only when ENCODER_ONLY is false: encoder-only models are built with
\* the static loader.
Canonical(c) ==
    /\ c.MEMORY_OVERLAP => c.OVERLAP_LAYERS <= MaxOverlapLayers(c)
    /\ ~c.MEMORY_OVERLAP => c.OVERLAP_LAYERS = 1
    /\ c.ENCODER_ONLY => ~c.MEMORY_OVERLAP

\* the state right after a successful T5.__init__
InitModel(c) ==
    /\ model = Built(c)
    /\ overlap_allocator_status = <<NoneTag, NoneTag>>
    /\ ring = <<{}, {}>>
    /\ param_pool = PermanentLayers(c)
    /\ copied = PermanentLayers(c)
    /\ loadQ = <<>>
    /\ calcQ = <<>>
    /\ barrier = [count |-> 0, state |-> 0]
    /\ calc = IdleCalc
    /\ loader = NoThread
    /\ ctx = NoCtx
    /\ pass = NoPass
    /\ raised = "none"
    /\ req = NoReq
    /\ cons = NoCons
    /\ orphan = NoOrphan

Init ==
    \E c \in Configurations :
        /\ Canonical(c)
        /\ ConstructionOutcome(c) = "ok"
        /\ InitModel(c)

Next == PassStep \/ Encode \/ InitDecoderContext \/ DecodeStep

Spec == Init /\ [][Next]_vars


\* ---- a failing upload ---------------------------------------------------

\* self.encoder[j].to_device(olp_allocator, load_stream) raises in the loader
\* thread (a transfer error): the exception ends the thread
LoadUploadFails ==
    /\ loader.pc = "upload"
    /\ loader' = [loader EXCEPT !.pc = "failed"]
    /\ UNCHANGED <<model, overlap_allocator_status, ring, param_pool, copied, loadQ,
                   calcQ, barrier, calc, ctx, pass, raised, req, cons, orphan>>

NextLoadFail == Next \/ LoadUploadFails

SpecLoadFail == Init /\ [][NextLoadFail]_vars

\* C6: after an upload has failed in the loader, the calc driver is not
\* left blocked in barrier.wait(): the pass ends with an error.
C6_LoadFailureSurfaces ==
    loader.pc = "failed" => ~(calc.pc = "bwaiting" /\ barrier.state = 0)

\* ---- a failing calc driver ----------------------------------------------

\* self.encoder[i].forward(self.variable_allocator, ...) raises in the calc
\* driver (the activation pool is over its limit): the exception leaves
\* encode / decode_step, which have no handler; load_thread.join() is not
\* reached, the barrier is not aborted, and the loader thread (a daemon)
\* stays as it is with the barrier of its pass.  The model follows one
\* abandoned loader at a time.
CalcForwardFails ==
    /\ calc.pc = "forward"
    /\ orphan.pc \in Terminated \cup {"none"}
    /\ orphan' = [pc |-> loader.pc, i |-> loader.i, j |-> loader.j,
                  kind |-> calc.kind, barrier |-> barrier]
    /\ loader' = NoThread
    /\ calc' = [calc EXCEPT !.pc = "idle"]
    /\ raised' = "over limit"
    /\ UNCHANGED <<model, overlap_allocator_status, ring, param_pool, copied, loadQ,
                   calcQ, barrier, ctx, pass, req, cons>>

\* the for loop of the abandoned loader after boundary i
OrphanAfter(i) ==
    IF i + model.overlap_layers < NumLayers(orphan.kind)
    THEN [orphan EXCEPT !.pc = "sync", !.i = i + model.overlap_layers, !.j = 0]
    ELSE [orphan EXCEPT !.pc = "exited", !.i = i, !.j = 0]

\* load_stream.synchronize(): the load stream is shared with the new pass
OrphanSync ==
    /\ orphan.pc = "sync"
    /\ loadQ = <<>>
    /\ orphan' = [orphan EXCEPT !.pc = "bwait"]
    /\ UNCHANGED <<model, overlap_allocator_status, ring, param_pool, copied, loadQ,
                   calcQ, barrier, calc, loader, ctx, pass, raised, req, cons>>

\* barrier.wait() on the barrier of the failed pass: arrive
OrphanBarrierWait ==
    /\ orphan.pc = "bwait"
    /\ orphan.barrier.state \notin {-1, 1}
    /\ LET b == orphan.barrier IN
       orphan' = IF b.count + 1 = 2
                 THEN [orphan EXCEPT !.barrier = [count |-> b.count, state |-> 1],
                                     !.pc = "check"]
                 ELSE [orphan EXCEPT !.barrier = [count |-> b.count + 1, state |-> b.state],
                                     !.pc = "bwaiting"]
    /\ UNCHANGED <<model, overlap_allocator_status, ring, param_pool, copied, loadQ,
                   calcQ, barrier, calc, loader, ctx, pass, raised, req, cons>>

\* barrier.wait(): woken by the arrival or the reset() the calc driver made
\* before it failed
OrphanBarrierWake ==
    /\ orphan.pc = "bwaiting"
    /\ orphan.barrier.state # 0
    /\ orphan' = [orphan EXCEPT
                    !.barrier = BarrierExit(orphan.barrier.count - 1, orphan.barrier.state),
                    !.pc = IF orphan.barrier.state < 0 THEN "broken" ELSE "check"]
    /\ UNCHANGED <<model, overlap_allocator_status, ring, param_pool, copied, loadQ,
                   calcQ, barrier, calc, loader, ctx, pass, raised, req, cons>>

\* if i + W < L: compare the target slot's status tag (equal: continue)
OrphanCheck ==
    /\ orphan.pc = "check"
    /\ orphan' =
         IF orphan.i + model.overlap_layers < NumLayers(orphan.kind)
            /\ overlap_allocator_status[OverlapIdx(orphan.i) + 1] # Tag(orphan.kind, orphan.i)
         THEN [orphan EXCEPT !.pc = "reset"]
         ELSE OrphanAfter(orphan.i)
    /\ UNCHANGED <<model, overlap_allocator_status, ring, param_pool, copied, loadQ,
                   calcQ, barrier, calc, loader, ctx, pass, raised, req, cons>>

\* olp_allocator = self.overlap_allocator[overlap_idx]; olp_allocator.reset()
OrphanReset ==
    /\ orphan.pc = "reset"
    /\ LET idx == OverlapIdx(orphan.i) IN
       IF model.overlap_allocator[idx + 1] < 0
       THEN /\ orphan' = [orphan EXCEPT !.pc = "crashed"]
            /\ UNCHANGED <<ring, copied>>
       ELSE /\ ring' = [ring EXCEPT ![idx + 1] = {}]
            /\ copied' = copied \ ring[idx + 1]
            /\ orphan' = [orphan EXCEPT !.pc = "upload",
                                        !.j = orphan.i + model.overlap_layers]
    /\ UNCHANGED <<model, overlap_allocator_status, param_pool, loadQ, calcQ, barrier,
                   calc, loader, ctx, pass, raised, req, cons>>

\* self.encoder[j].to_device(olp_allocator, load_stream)
OrphanUpload ==
    /\ orphan.pc = "upload"
    /\ LET idx == OverlapIdx(orphan.i)
           l   == <<orphan.kind, orphan.j>>
       IN  IF RingUsed(idx + 1) + model.nbytes[orphan.kind] > model.overlap_allocator[idx + 1]
           THEN /\ orphan' = [orphan EXCEPT !.pc = "crashed"]
                /\ UNCHANGED <<ring, param_pool, copied, loadQ>>
           ELSE /\ ring' = [ring EXCEPT ![idx + 1] = @ \cup {l}]
                /\ param_pool' = param_pool \ {l}
                /\ copied' = copied \ {l}
                /\ loadQ' = Append(loadQ, l)
                /\ orphan' = [orphan EXCEPT
                                !.j = @ + 1,
                                !.pc = IF orphan.j + 1
                                          < Min(orphan.i + model.overlap_layers * 2,
                                                NumLayers(orphan.kind))
                                       THEN "upload" ELSE "settag"]
    /\ UNCHANGED <<model, overlap_allocator_status, calcQ, barrier, calc, loader,
                   ctx, pass, raised, req, cons>>

\* self.overlap_allocator_status[overlap_idx] = i + 1 (or -(i + 1))
OrphanSetStatus ==
    /\ orphan.pc = "settag"
    /\ overlap_allocator_status' =
         [overlap_allocator_status EXCEPT
            ![OverlapIdx(orphan.i) + 1] = Tag(orphan.kind, orphan.i)]
    /\ orphan' = OrphanAfter(orphan.i)
    /\ UNCHANGED <<model, ring, param_pool, copied, loadQ, calcQ, barrier, calc, loader,
                   ctx, pass, raised, req, cons>>

OrphanStep ==
    \/ OrphanSync \/ OrphanBarrierWait \/ OrphanBarrierWake \/ OrphanCheck
    \/ OrphanReset \/ OrphanUpload \/ OrphanSetStatus

\* overlapped models of at most FailLayers encoder / decoder layers
FailConfigurations ==
    {c \in Configurations :
        /\ c.MEMORY_OVERLAP
        /\ c.NUM_ENCODER_LAYERS <= FailLayers /\ c.NUM_DECODER_LAYERS <= FailLayers
        /\ c.enc_nbytes = LayerBytes /\ c.dec_nbytes = LayerBytes}

InitCalcFail ==
    \E c \in FailConfigurations :
        /\ Canonical(c)
        /\ ConstructionOutcome(c) = "ok"
        /\ InitModel(c)

NextCalcFail == Next \/ CalcForwardFails \/ OrphanStep

SpecCalcFail == InitCalcFail /\ [][NextCalcFail]_vars

\* ---- the task drivers (CPM2.pre_processing, fill_blank, generate) --------

\* SPAN_TOKEN = "<span>"; a sentence is the sequence of its characters
SPAN_TOKEN == <<"<", "s", "p", "a", "n", ">">>

\* sentences are built from ordinary characters and span markers
Pieces == {<<"A">>, <<"B">>, SPAN_TOKEN}

RECURSIVE Concat(_)
Concat(ps) == IF ps = <<>> THEN <<>> ELSE Head(ps) \o Concat(Tail(ps))

Sentences == {Concat(ps) : ps \in UNION {[1..n -> Pieces] : n \in 0..MaxPieces}}

\* the spans_position argument: None, or a list of offsets (not negative)
NoneArg == [given |-> FALSE, list |-> <<>>]
SpansArgs ==
    {NoneArg}
    \cup {[given |-> TRUE, list |-> l] :
            l \in UNION {[1..n -> 0..MaxPosition] : n \in 0..MaxGivenSpans}}
    \cup {[given |-> TRUE, list |-> [k \in 1..n |-> 0]] :
            n \in {MaxSpanCount, MaxSpanCount + 1}}

\* input_sentence[pos:].startswith(SPAN_TOKEN)
StartsWithSpan(s, pos) ==
    /\ pos + Len(SPAN_TOKEN) <= Len(s)
    /\ SubSeq(s, pos + 1, pos + Len(SPAN_TOKEN)) = SPAN_TOKEN

\* input_sentence.find(SPAN_TOKEN, st): the lowest index from st on, or -1
Find(s, st) ==
    LET hits == {p \in st..(Len(s) - Len(SPAN_TOKEN)) : StartsWithSpan(s, p)}
    IN  IF hits = {} THEN -1 ELSE CHOOSE p \in hits : \A q \in hits : p <= q

\* mutant: the offset is recorded relative to the start of the search
RECURSIVE DetectSpans_RelativeOffset(_, _, _)
DetectSpans_RelativeOffset(s, st, spans_position) ==
    LET nw_pos == Find(s, st)
    IN  IF nw_pos = -1
        THEN spans_position
        ELSE DetectSpans_RelativeOffset(s, nw_pos + Len(SPAN_TOKEN),
                                        Append(spans_position, nw_pos - st))

\* the detection loop of pre_processing (spans_position is None)
RECURSIVE DetectSpans(_, _, _)
DetectSpans(s, st, spans_position) ==
    LET nw_pos == Find(s, st)
    IN  IF nw_pos = -1
        THEN spans_position
        ELSE DetectSpans(s, nw_pos + Len(SPAN_TOKEN), Append(spans_position, nw_pos))

SpansPosition(s, arg) == IF arg.given THEN arg.list ELSE DetectSpans(s, 0, <<>>)

\* mutant: the span positions are validated before the count is tested
PreProcessingError_PositionsFirst(s, spans_position) ==
    IF \E k \in 1..Len(spans_position) : ~StartsWithSpan(s, spans_position[k])
    THEN "Wrong span token"
    ELSE IF Len(spans_position) = 0 THEN "No spans"
    ELSE IF Len(spans_position) > MaxSpanCount THEN "Too many spans"
    ELSE "none"

\* the three checks of pre_processing, in the order of the code
PreProcessingError(s, spans_position) ==
    IF Len(spans_position) = 0 THEN "No spans"
    ELSE IF Len(spans_position) > MaxSpanCount THEN "Too many spans"
    ELSE IF \E k \in 1..Len(spans_position) : ~StartsWithSpan(s, spans_position[k])
         THEN "Wrong span token"
    ELSE "none"

\* self.tokenizer.get_span(k)
GetSpan(k) == <<"span", k>>

\* other token ids: an ordinary token, a token the caller may stop on, <eod>
TextToken == <<"text", 0>>
WordToken == <<"word", 0>>
EodId     == <<"eod", 0>>

\* what sampler.sample(logits) can return
SampleTokens ==
    {GetSpan(k) : k \in 1..(MaxSpans + 1)} \cup {TextToken, WordToken, EodId}

\* self.tokenizer.decode(ids): the words of the ids, in order
IdToText(ids) == [k \in 1..Len(ids) |-> [word |-> ids[k][1], n |-> ids[k][2]]]

\* the locals of a task driver at its call
NewRequest(task, s, arg, mt) ==
    [pc |-> "encode", task |-> task, input_sentence |-> s, spans_arg |-> arg,
     spans_position |-> <<>>, S |-> 0, max_tokens |-> mt, it |-> 0, next_span |-> 0,
     decoder_ipts |-> <<"none", 0>>, blanks |-> <<>>, sampled |-> <<>>,
     stop_tokens |-> <<>>, stoped |-> FALSE, stop |-> "none", result |-> <<>>]

\* pre_processing(input_sentence, spans_position, ...) up to self.encode(...)
PreProcessing(r, s, arg) ==
    LET spans_position == SpansPosition(s, arg)
        err == PreProcessingError(s, spans_position)
    IN  IF err # "none"
        THEN /\ req' = [r EXCEPT !.pc = "returned", !.stop = "error"]
             /\ raised' = err
             /\ UNCHANGED <<barrier, calc, loader, pass>>
        ELSE /\ req' = [r EXCEPT !.spans_position = spans_position,
                                 !.S = Len(spans_position)]
             /\ raised' = "none"
             /\ StartPass("enc", -1)

\* fill_blank(input_sentence, spans_position, max_tokens)
FB_Call ==
    /\ calc.pc = "idle"
    /\ req.pc = "none"
    /\ \E s \in Sentences, arg \in SpansArgs, mt \in 0..MaxTokens :
         PreProcessing(NewRequest("fill_blank", s, arg, mt), s, arg)
    /\ UNCHANGED <<model, overlap_allocator_status, ring, param_pool, copied, loadQ,
                   calcQ, ctx, cons, orphan>>

\* pre_processing: self.init_decoder_context(ctx) once encode has returned
FB_InitDecoder ==
    /\ calc.pc = "idle"
    /\ req.pc = "encode"
    /\ raised' = DecoderContext(ctx).error
    /\ ctx' = DecoderContext(ctx).ctx
    /\ req' = IF DecoderContext(ctx).error # "none"
              THEN [req EXCEPT !.pc = "returned", !.stop = "error"]
              ELSE [req EXCEPT !.pc = "init"]
    /\ UNCHANGED <<model, overlap_allocator_status, ring, param_pool, copied, loadQ,
                   calcQ, barrier, calc, loader, pass, cons, orphan>>

\* logits = self.decode_step(ctx, [self.tokenizer.sod_id])[0]
FB_FirstStep ==
    /\ calc.pc = "idle"
    /\ req.pc = "init"
    /\ req.task = "fill_blank"
    /\ DecodeStepBegin
    /\ req' = [req EXCEPT !.pc = "sod"]
    /\ UNCHANGED <<model, overlap_allocator_status, ring, param_pool, copied, loadQ,
                   calcQ, cons, orphan>>

\* decoder_ipts = get_span(0); blanks = [[]]; next_span = 1; the first
\* decode_step of the loop
FB_EnterLoop ==
    /\ calc.pc = "idle"
    /\ req.pc = "sod"
    /\ req.task = "fill_blank"
    /\ IF req.max_tokens > 0
       THEN /\ DecodeStepBegin
            /\ req' = [req EXCEPT !.pc = "step", !.decoder_ipts = GetSpan(0),
                                  !.blanks = << <<>> >>, !.next_span = 1]
       ELSE /\ req' = [req EXCEPT !.pc = "done", !.decoder_ipts = GetSpan(0),
                                  !.blanks = << <<>> >>, !.next_span = 1,
                                  !.stop = "max_tokens"]
            /\ UNCHANGED <<barrier, calc, loader, ctx, pass, raised>>
    /\ UNCHANGED <<model, overlap_allocator_status, ring, param_pool, copied, loadQ,
                   calcQ, cons, orphan>>

\* mutant: any sentinel closes the blank, not only the expected one
FB_Sample_AnySentinel ==
    /\ calc.pc = "idle"
    /\ req.pc = "step"
    /\ req.task = "fill_blank"
    /\ \E tok \in SampleTokens :
         LET hit    == tok[1] = "span"
             next   == IF hit THEN req.next_span + 1 ELSE req.next_span
             brk    == hit /\ next > req.S
             blanks == IF hit
                       THEN (IF brk THEN req.blanks ELSE Append(req.blanks, <<>>))
                       ELSE [req.blanks EXCEPT ![Len(req.blanks)] = Append(@, tok)]
             more   == ~brk /\ req.it + 1 < req.max_tokens
         IN  /\ req' = [req EXCEPT !.decoder_ipts = tok, !.next_span = next,
                                   !.blanks = blanks, !.it = @ + 1,
                                   !.sampled = Append(@, tok),
                                   !.pc = IF more THEN "step" ELSE "done",
                                   !.stop = IF brk THEN "last_span"
                                            ELSE IF more THEN "none" ELSE "max_tokens"]
             /\ IF more
                THEN DecodeStepBegin
                ELSE UNCHANGED <<barrier, calc, loader, ctx, pass, raised>>
    /\ UNCHANGED <<model, overlap_allocator_status, ring, param_pool, copied, loadQ,
                   calcQ, cons, orphan>>

\* the loop body after decode_step has returned: sample, compare with the
\* expected sentinel, then break, start the next decode_step or run out
FB_Sample ==
    /\ calc.pc = "idle"
    /\ req.pc = "step"
    /\ req.task = "fill_blank"
    /\ \E tok \in SampleTokens :
         LET hit    == tok = GetSpan(req.next_span)
             next   == IF hit THEN req.next_span + 1 ELSE req.next_span
             brk    == hit /\ next > req.S
             blanks == IF hit
                       THEN (IF brk THEN req.blanks ELSE Append(req.blanks, <<>>))
                       ELSE [req.blanks EXCEPT ![Len(req.blanks)] = Append(@, tok)]
             more   == ~brk /\ req.it + 1 < req.max_tokens
         IN  /\ req' = [req EXCEPT !.decoder_ipts = tok, !.next_span = next,
                                   !.blanks = blanks, !.it = @ + 1,
                                   !.sampled = Append(@, tok),
                                   !.pc = IF more THEN "step" ELSE "done",
                                   !.stop = IF brk THEN "last_span"
                                            ELSE IF more THEN "none" ELSE "max_tokens"]
             /\ IF more
                THEN DecodeStepBegin
                ELSE UNCHANGED <<barrier, calc, loader, ctx, pass, raised>>
    /\ UNCHANGED <<model, overlap_allocator_status, ring, param_pool, copied, loadQ,
                   calcQ, cons, orphan>>

\* return [{"position": ..., "text": ...} for ... in zip(spans_position, blanks)]
FB_Return ==
    /\ req.pc = "done"
    /\ req.task = "fill_blank"
    /\ req' = [req EXCEPT !.pc = "returned",
                          !.result = [k \in 1..Min(Len(req.spans_position), Len(req.blanks)) |->
                                        [position |-> req.spans_position[k],
                                         text |-> IdToText(req.blanks[k])]]]
    /\ UNCHANGED <<model, overlap_allocator_status, ring, param_pool, copied, loadQ,
                   calcQ, barrier, calc, loader, ctx, pass, raised, cons, orphan>>

\* ---- free generation (CPM2.generate) -----------------------------------

\* the words a caller may pass as stop_tokens
StopWords == {"w"}

\* self.tokenizer.encode(text): the list of the ids of the text's tokens
\* (pre_processing extends idx with it)
TokenizerEncode(text) == IF text = "w" THEN <<WordToken>> ELSE <<TextToken>>

\* the stop_tokens argument: None or a list of words
StopArgs ==
    {[given |-> FALSE, list |-> <<>>], [given |-> TRUE, list |-> <<>>]}
    \cup {[given |-> TRUE, list |-> <<w>>] : w \in StopWords}

\* an element of the local list stop_tokens: a list of ids, or an id
StopList(ids) == [kind |-> "list", ids |-> ids]
StopId(id)    == [kind |-> "id", ids |-> <<id>>]

\* Python's `x in l` for an id x: an id equals an id, never a list
PyIn(x, l) == \E k \in 1..Len(l) : l[k].kind = "id" /\ l[k].ids[1] = x

\* stop_tokens = [self.tokenizer.encode(i) for i in stop_tokens], then
\* <eod> is appended unless `eod_id in stop_tokens`
StopTokens(arg) ==
    LET given == [k \in 1..Len(arg.list) |-> StopList(TokenizerEncode(arg.list[k]))]
    IN  IF PyIn(EodId, given) THEN given ELSE Append(given, StopId(EodId))

\* generate(input_sentence, max_tokens, stop_tokens): pre_processing of
\* input_sentence + SPAN_TOKEN with the one span [len(input_sentence)]
Gen_Call ==
    /\ calc.pc = "idle"
    /\ req.pc = "none"
    /\ \E s \in Sentences, stops \in StopArgs, mt \in 0..MaxTokens :
         LET arg == [given |-> TRUE, list |-> <<Len(s)>>]
             r   == [NewRequest("generate", s \o SPAN_TOKEN, arg, mt)
                        EXCEPT !.stop_tokens = StopTokens(stops)]
         IN  PreProcessing(r, s \o SPAN_TOKEN, arg)
    /\ UNCHANGED <<model, overlap_allocator_status, ring, param_pool, copied, loadQ,
                   calcQ, ctx, cons, orphan>>

\* logits = self.decode_step(ctx, [self.tokenizer.sod_id])[0]
Gen_FirstStep ==
    /\ calc.pc = "idle"
    /\ req.pc = "init"
    /\ req.task = "generate"
    /\ DecodeStepBegin
    /\ req' = [req EXCEPT !.pc = "sod"]
    /\ UNCHANGED <<model, overlap_allocator_status, ring, param_pool, copied, loadQ,
                   calcQ, cons, orphan>>

\* decoder_ipts = get_span(189); blanks = []; stoped = False; the first
\* decode_step of the loop
Gen_EnterLoop ==
    /\ calc.pc = "idle"
    /\ req.pc = "sod"
    /\ req.task = "generate"
    /\ IF req.max_tokens > 0
       THEN /\ DecodeStepBegin
            /\ req' = [req EXCEPT !.pc = "step", !.decoder_ipts = GetSpan(189)]
       ELSE /\ req' = [req EXCEPT !.pc = "done", !.decoder_ipts = GetSpan(189),
                                  !.stop = "max_tokens"]
            /\ UNCHANGED <<barrier, calc, loader, ctx, pass, raised>>
    /\ UNCHANGED <<model, overlap_allocator_status, ring, param_pool, copied, loadQ,
                   calcQ, cons, orphan>>

\* the loop body after decode_step has returned: sample, test the stop
\* list, then break, or append and start the next decode_step or run out
Gen_Sample ==
    /\ calc.pc = "idle"
    /\ req.pc = "step"
    /\ req.task = "generate"
    /\ \E tok \in SampleTokens :
         LET brk  == PyIn(tok, req.stop_tokens)
             more == ~brk /\ req.it + 1 < req.max_tokens
         IN  /\ req' = [req EXCEPT !.decoder_ipts = tok, !.it = @ + 1,
                                   !.sampled = Append(@, tok),
                                   !.stoped = brk,
                                   !.blanks = IF brk THEN @ ELSE Append(@, tok),
                                   !.pc = IF more THEN "step" ELSE "done",
                                   !.stop = IF brk THEN "stop_token"
                                            ELSE IF more THEN "none" ELSE "max_tokens"]
             /\ IF more
                THEN DecodeStepBegin
                ELSE UNCHANGED <<barrier, calc, loader, ctx, pass, raised>>
    /\ UNCHANGED <<model, overlap_allocator_status, ring, param_pool, copied, loadQ,
                   calcQ, cons, orphan>>

\* return self.id_to_text(blanks), stoped
Gen_Return ==
    /\ req.pc = "done"
    /\ req.task = "generate"
    /\ req' = [req EXCEPT !.pc = "returned",
                          !.result = [text |-> IdToText(req.blanks),
                                      stoped |-> req.stoped]]
    /\ UNCHANGED <<model, overlap_allocator_status, ring, param_pool, copied, loadQ,
                   calcQ, barrier, calc, loader, ctx, pass, raised, cons, orphan>>

\* fill_blank or generate has returned or raised: its frame, with every
\* local of the call, is gone
RequestEnd ==
    /\ req.pc = "returned"
    /\ req' = NoReq
    /\ UNCHANGED <<model, overlap_allocator_status, ring, param_pool, copied, loadQ,
                   calcQ, barrier, calc, loader, ctx, pass, raised, cons, orphan>>

FillConfigurations ==
    {c \in Configurations :
        /\ c.NUM_ENCODER_LAYERS <= FillLayers /\ c.NUM_DECODER_LAYERS <= FillLayers
        /\ c.enc_nbytes = LayerBytes /\ c.dec_nbytes = LayerBytes}

InitFill ==
    \E c \in FillConfigurations :
        /\ Canonical(c)
        /\ ConstructionOutcome(c) = "ok"
        /\ InitModel(c)

NextFill ==
    PassStep \/ FB_Call \/ FB_InitDecoder \/ FB_FirstStep \/ FB_EnterLoop
    \/ FB_Sample \/ FB_Return
    \/ Gen_Call \/ Gen_FirstStep \/ Gen_EnterLoop \/ Gen_Sample \/ Gen_Return
    \/ RequestEnd

SpecFill == InitFill /\ [][NextFill]_vars

\* C10: fill_blank terminates: it never waits in a pass that cannot finish,
\* draws at most max_tokens samples in at most max_tokens + 1 decode steps,
\* and stops right after the sample equal to span_S, else after max_tokens
\* samples.
C10_FillBlankTerminates ==
    req.pc \in {"encode", "init", "sod", "step", "done"} /\ req.task = "fill_blank" =>
        /\ ~(calc.pc = "bwaiting" /\ barrier.state = 0 /\ loader.pc \in Terminated)
        /\ req.it <= req.max_tokens
        /\ req.pc \in {"sod", "step", "done"} => ctx.calls <= req.max_tokens + 1
        /\ req.pc = "done" =>
              \/ req.stop = "last_span" /\ req.next_span = req.S + 1
                 /\ req.decoder_ipts = GetSpan(req.S)
              \/ req.stop = "max_tokens" /\ req.it = req.max_tokens
                 /\ req.next_span <= req.S

\* the sample budget and the stopping rule alone, whatever the passes do
FillBlankBudget ==
    req.pc \in {"encode", "init", "sod", "step", "done"} /\ req.task = "fill_blank" =>
        /\ req.it <= req.max_tokens
        /\ req.pc \in {"sod", "step", "done"} => ctx.calls <= req.max_tokens + 1
        /\ req.pc = "done" =>
              \/ req.stop = "last_span" /\ req.next_span = req.S + 1
                 /\ req.decoder_ipts = GetSpan(req.S)
              \/ req.stop = "max_tokens" /\ req.it = req.max_tokens
                 /\ req.next_span <= req.S

\* ---- the constructor, step by step (T5.__init__) -------------------------

passVars == <<model, overlap_allocator_status, ring, param_pool, copied, loadQ, calcQ,
              barrier, calc, loader, ctx, pass, raised, req, orphan>>

OtherLayers == {<<"other", 0>>}
EncoderLayers(c) == {<<"enc", i>> : i \in 0..(c.NUM_ENCODER_LAYERS - 1)}
DecoderLayers(c) ==
    IF c.ENCODER_ONLY THEN {} ELSE {<<"dec", i>> : i \in 0..(c.NUM_DECODER_LAYERS - 1)}

\* layer.nbytes
LayerNBytes(c, l) ==
    IF l[1] = "enc" THEN c.enc_nbytes
    ELSE IF l[1] = "dec" THEN c.dec_nbytes
    ELSE c.other_nbytes

RECURSIVE SumBytes(_, _)
SumBytes(c, ls) ==
    IF ls = {} THEN 0
    ELSE LET l == CHOOSE x \in ls : TRUE IN LayerNBytes(c, l) + SumBytes(c, ls \ {l})

\* the locals and fields of a constructor call that has not created anything
StartCons(c) ==
    [ pc |-> "plan", cfg |-> c, error |-> "none",
      parameter_allocator |-> -1, overlap_allocator |-> <<-1, -1>>,
      variable_allocator |-> -1, variable_used |-> 0, pools |-> 0,
      device |-> {}, removed |-> {}, pinned |-> {}, auto |-> FALSE,
      overlap_size |-> 0, accessed |-> {} ]

\* the memory check: computes overlap_size / other_size (or nbytes) and
\* raises ValueError("memory limit not enough ...") before anything is created.
\* With overlap on an encoder-only model the mx_size loop reads self.decoder
\* first and the constructor ends with an AttributeError, whatever the limit.
T5_Plan ==
    /\ cons.pc = "plan"
    /\ LET overlap_size == IF cons.cfg.MEMORY_OVERLAP THEN OverlapSize(cons.cfg) ELSE 0 IN
       cons' = IF DecoderUnset(cons.cfg)
               THEN [cons EXCEPT !.pc = "raised", !.error = "attribute_error"]
               ELSE IF RequiredBytes(cons.cfg) > cons.cfg.MEMORY_LIMIT
               THEN [cons EXCEPT !.pc = "raised", !.error = "memory limit not enough",
                                 !.overlap_size = overlap_size]
               ELSE [cons EXCEPT !.pc = "pools", !.overlap_size = overlap_size]
    /\ UNCHANGED passVars

\* parameter_allocator, overlap_allocator, variable_allocator are created
T5_CreatePools ==
    /\ cons.pc = "pools"
    /\ cons' = [cons EXCEPT
                  !.pc = "to_device",
                  !.parameter_allocator = ParameterAllocatorSize(cons.cfg),
                  !.overlap_allocator =
                      IF cons.cfg.MEMORY_OVERLAP THEN OverlapAllocatorSize(cons.cfg)
                      ELSE <<-1, -1>>,
                  !.variable_allocator = VariableAllocatorSize(cons.cfg),
                  !.pools = 2 + Cardinality({k \in 1..2 :
                                  cons.cfg.MEMORY_OVERLAP
                                  /\ OverlapAllocatorSize(cons.cfg)[k] >= 0})]
    /\ UNCHANGED passVars

\* layer.to_device(self.parameter_allocator, load_stream) for the permanent
\* layers; a ReusedAllocator raises when the request passes its capacity
T5_ToDevice ==
    /\ cons.pc = "to_device"
    /\ LET ls == PermanentLayers(cons.cfg) \cup OtherLayers IN
       cons' = IF SumBytes(cons.cfg, ls) > cons.parameter_allocator
               THEN [cons EXCEPT !.pc = "raised", !.error = "out of pool"]
               ELSE [cons EXCEPT !.pc = "prealloc", !.device = ls]
    /\ UNCHANGED passVars

\* self.variable_allocator.alloc(config.DYNAMIC_MEMORY)
T5_Preallocate ==
    /\ cons.pc = "prealloc"
    /\ cons' = IF cons.cfg.DYNAMIC_MEMORY > cons.variable_allocator
               THEN [cons EXCEPT !.pc = "raised", !.error = "over limit"]
               ELSE [cons EXCEPT !.pc = "cleanup",
                                 !.variable_used = cons.cfg.DYNAMIC_MEMORY]
    /\ UNCHANGED passVars

\* for i in range(self.max_overlap_layers), from iteration i on: st carries
\* the layers indexed so far (accessed), those whose host copy was removed,
\* those handed to _try_pinned, and the error that ended the loop.  Indexing
\* a layer list at or past its length raises and ends the constructor.
RECURSIVE CleanupLoop(_, _, _)
CleanupLoop(c, i, st) ==
    IF i >= MaxOverlapLayers(c) THEN st
    ELSE IF i < OverlapLayers(c)
    THEN LET e1 == [st EXCEPT !.accessed = @ \cup {<<"enc", i>>}] IN
         IF i >= c.NUM_ENCODER_LAYERS THEN [e1 EXCEPT !.error = "index_error"]
         ELSE LET e2 == [e1 EXCEPT !.removed = @ \cup {<<"enc", i>>},
                                   !.accessed = @ \cup {<<"dec", i>>}] IN
              IF i >= c.NUM_DECODER_LAYERS THEN [e2 EXCEPT !.error = "index_error"]
              ELSE CleanupLoop(c, i + 1, [e2 EXCEPT !.removed = @ \cup {<<"dec", i>>}])
    ELSE LET ls == (IF i < c.NUM_ENCODER_LAYERS THEN {<<"enc", i>>} ELSE {})
                   \cup (IF i < c.NUM_DECODER_LAYERS THEN {<<"dec", i>>} ELSE {})
         IN  CleanupLoop(c, i + 1, [st EXCEPT !.accessed = @ \cup ls,
                                              !.pinned = @ \cup ls])

\* "Cleaning useless parameters on cpu": _remove_data / _try_pinned
T5_Cleanup ==
    /\ cons.pc = "cleanup"
    /\ LET c == cons.cfg IN
       cons' =
         IF ~c.MEMORY_OVERLAP
         THEN [cons EXCEPT !.pc = "done",
                           !.removed = OtherLayers \cup EncoderLayers(c) \cup DecoderLayers(c)]
         ELSE LET st == CleanupLoop(c, 0, [cons EXCEPT !.removed = OtherLayers]) IN
              [st EXCEPT !.pc = IF st.error = "none" THEN "done" ELSE "raised"]
    /\ UNCHANGED passVars

\* ---- the specification of the constructor -------------------------------

PlanConfigurations ==
    [ NUM_ENCODER_LAYERS : LayerCounts, NUM_DECODER_LAYERS : LayerCounts,
      OVERLAP_LAYERS : 1..(MaxLayers + 1), MEMORY_OVERLAP : BOOLEAN,
      ENCODER_ONLY : BOOLEAN, MAX_DECODER_LENGTH : {MaxDecoderLength},
      enc_nbytes : 1..MaxLayerBytes, dec_nbytes : 1..MaxLayerBytes, other_nbytes : {1},
      DYNAMIC_MEMORY : 0..MaxDynamicMemory, MEMORY_LIMIT : 0..MaxMemoryLimit ]

InitPlan ==
    \E c \in PlanConfigurations :
        /\ ~c.MEMORY_OVERLAP => c.OVERLAP_LAYERS = 1
        /\ cons = StartCons(c)
        /\ model = Built(c)
        /\ overlap_allocator_status = <<NoneTag, NoneTag>>
        /\ ring = <<{}, {}>>
        /\ param_pool = {}
        /\ copied = {}
        /\ loadQ = <<>>
        /\ calcQ = <<>>
        /\ barrier = [count |-> 0, state |-> 0]
        /\ calc = IdleCalc
        /\ loader = NoThread
        /\ ctx = NoCtx
        /\ pass = NoPass
        /\ raised = "none"
        /\ req = NoReq
        /\ orphan = NoOrphan

NextPlan == T5_Plan \/ T5_CreatePools \/ T5_ToDevice \/ T5_Preallocate \/ T5_Cleanup

SpecPlan == InitPlan /\ [][NextPlan]_vars

\* ---- the constructor of CPM2 (automatic overlap window) ------------------

\* bytes CPM2.__init__ sets aside for everything but the streamed layers, and
\* the bytes it counts for one layer
AutoReservedBytes == 1235640320
AutoLayerBytes    == 226615296

\* The memory quantities of a configuration (MEMORY_LIMIT, DYNAMIC_MEMORY,
\* nbytes) are counted in pages of PageBytes bytes, the largest power of two
\* dividing both constants: every comparison of the planner is linear in
\* them, and the floor division below gives the same quotient in pages as in
\* bytes for limits that are whole pages.
PageBytes == 8192

\* OVERLAP_LAYERS = None
UnsetLayers == 0

\* max_layers = (MEMORY_LIMIT - DYNAMIC_MEMORY - 1235640320) // 226615296
AutoMaxLayers(c) ==
    (c.MEMORY_LIMIT - c.DYNAMIC_MEMORY - AutoReservedBytes \div PageBytes)
        \div (AutoLayerBytes \div PageBytes)

\* mutant: the middle case takes half of max_layers
AutoOverlapLayers_HalfSecondCase(c) ==
    LET max_overlap == Max(c.NUM_ENCODER_LAYERS, c.NUM_DECODER_LAYERS)
        max_layers  == AutoMaxLayers(c)
    IN  IF max_layers * 3 < max_overlap * 4 THEN max_layers \div 4
        ELSE IF max_layers < max_overlap * 2 THEN max_layers \div 2
        ELSE max_overlap

\* the value CPM2.__init__ gives config.OVERLAP_LAYERS when it is None
AutoOverlapLayers(c) ==
    LET max_overlap == Max(c.NUM_ENCODER_LAYERS, c.NUM_DECODER_LAYERS)
        max_layers  == AutoMaxLayers(c)
    IN  IF max_layers * 3 < max_overlap * 4 THEN max_layers \div 4
        ELSE IF max_layers < max_overlap * 2 THEN max_layers - max_overlap
        ELSE max_overlap

\* CPM2.__init__ up to super().__init__(config), whose steps follow
CPM2_Init ==
    /\ cons.pc = "auto"
    /\ LET c == cons.cfg
           w == AutoOverlapLayers(c)
           d == [c EXCEPT !.OVERLAP_LAYERS = w]
       IN  IF c.MEMORY_OVERLAP /\ c.OVERLAP_LAYERS = UnsetLayers
           THEN /\ cons' = IF w < 1
                           THEN [cons EXCEPT !.pc = "raised", !.cfg = d, !.auto = TRUE,
                                             !.error = "Memory is not enough"]
                           ELSE [cons EXCEPT !.pc = "plan", !.cfg = d, !.auto = TRUE]
                /\ model' = IF w < 1 THEN model ELSE Built(d)
           ELSE /\ cons' = [cons EXCEPT !.pc = "plan"]
                /\ UNCHANGED model
    /\ UNCHANGED <<overlap_allocator_status, ring, param_pool, copied, loadQ, calcQ,
                   barrier, calc, loader, ctx, pass, raised, req, orphan>>

\* memory limits at the multiples of AutoLayerBytes, up to room for 2M layers
AutoLimits ==
    {AutoReservedBytes \div PageBytes + k * (AutoLayerBytes \div PageBytes) :
        k \in (-1)..(2 * MaxLayers)}

AutoConfigurations ==
    [ NUM_ENCODER_LAYERS : LayerCounts, NUM_DECODER_LAYERS : LayerCounts,
      OVERLAP_LAYERS : {UnsetLayers} \cup LayerCounts, MEMORY_OVERLAP : BOOLEAN,
      ENCODER_ONLY : {FALSE}, MAX_DECODER_LENGTH : {MaxDecoderLength},
      enc_nbytes : {LayerBytes}, dec_nbytes : {LayerBytes}, other_nbytes : {1},
      DYNAMIC_MEMORY : 0..MaxDynamicMemory, MEMORY_LIMIT : AutoLimits ]

InitAuto ==
    \E c \in AutoConfigurations :
        /\ ~c.MEMORY_OVERLAP => c.OVERLAP_LAYERS = UnsetLayers
        /\ cons = [StartCons(c) EXCEPT !.pc = "auto"]
        /\ model = Built(c)
        /\ overlap_allocator_status = <<NoneTag, NoneTag>>
        /\ ring = <<{}, {}>>
        /\ param_pool = {}
        /\ copied = {}
        /\ loadQ = <<>>
        /\ calcQ = <<>>
        /\ barrier = [count |-> 0, state |-> 0]
        /\ calc = IdleCalc
        /\ loader = NoThread
        /\ ctx = NoCtx
        /\ pass = NoPass
        /\ raised = "none"
        /\ req = NoReq
        /\ orphan = NoOrphan

NextAuto ==
    CPM2_Init \/ T5_Plan \/ T5_CreatePools \/ T5_ToDevice \/ T5_Preallocate \/ T5_Cleanup

SpecAuto == InitAuto /\ [][NextAuto]_vars

\* ---- properties of the constructor --------------------------------------

\* bytes of the ring pools that exist
RingBytes(oa) == (IF oa[1] >= 0 THEN oa[1] ELSE 0) + (IF oa[2] >= 0 THEN oa[2] ELSE 0)

\* C4: once the pools exist, permanent bytes (other_size plus the 2*W*s
\* share, all of it the parameter pool; nbytes without overlap) plus the ring
\* pools plus DYNAMIC_MEMORY is at most MEMORY_LIMIT, the activation pool is
\* what remains of MEMORY_LIMIT and holds the DYNAMIC_MEMORY pre-allocation.
C4_PoolsWithinLimit ==
    cons.pc \in {"to_device", "prealloc", "cleanup", "done"} =>
        LET c == cons.cfg IN
        /\ cons.parameter_allocator + RingBytes(cons.overlap_allocator) + c.DYNAMIC_MEMORY
              <= c.MEMORY_LIMIT
        /\ cons.parameter_allocator =
              IF c.MEMORY_OVERLAP
              THEN c.other_nbytes + 2 * OverlapLayers(c) * MxSize(c)
              ELSE TotalBytes(c)
        /\ cons.variable_allocator
              = c.MEMORY_LIMIT - cons.parameter_allocator - RingBytes(cons.overlap_allocator)
        /\ cons.variable_allocator >= c.DYNAMIC_MEMORY
        /\ cons.pc \in {"cleanup", "done"} => cons.variable_used = c.DYNAMIC_MEMORY
        /\ cons.error = "none"

\* a 3W >= M plan (two ring pools of different sizes) that fills the limit
C4_Witness ==
    /\ cons.pc = "done"
    /\ cons.cfg.MEMORY_OVERLAP
    /\ cons.overlap_allocator[1] >= 0
    /\ cons.overlap_allocator[1] < cons.overlap_allocator[2]
    /\ cons.cfg.DYNAMIC_MEMORY > 0
    /\ RequiredBytes(cons.cfg) = cons.cfg.MEMORY_LIMIT

\* the bytes the planner table asks for: permanent + ring pools + reserve
PlannedBytes(c) ==
    LET W == OverlapLayers(c)
        M == MaxOverlapLayers(c)
        s == MxSize(c)
    IN  IF c.MEMORY_OVERLAP
        THEN c.other_nbytes + 2 * W * s + c.DYNAMIC_MEMORY
             + (IF W >= M THEN 0
                ELSE IF 2 * W >= M THEN (M - W) * s
                ELSE IF 3 * W >= M THEN (M - 2 * W) * s + W * s
                ELSE 2 * W * s)
        ELSE TotalBytes(c) + c.DYNAMIC_MEMORY

\* C5: the constructor raises "memory limit not enough" exactly when
\* permanent + overlap + DYNAMIC_MEMORY exceeds MEMORY_LIMIT, and then no
\* pool has been created and no layer uploaded.
C5_RejectsExactlyOverLimit ==
    cons.pc # "plan" =>
        /\ (cons.error = "memory limit not enough")
              <=> (PlannedBytes(cons.cfg) > cons.cfg.MEMORY_LIMIT)
        /\ cons.error = "memory limit not enough" =>
              /\ cons.pc = "raised"
              /\ cons.pools = 0
              /\ cons.parameter_allocator = -1
              /\ cons.variable_allocator = -1
              /\ cons.device = {}

\* the same for every configuration whose planner can read its layer lists
\* (not encoder-only with overlap)
RejectsOverLimitWithDecoder ==
    (cons.pc # "plan" /\ ~DecoderUnset(cons.cfg)) =>
        /\ (cons.error = "memory limit not enough")
              <=> (PlannedBytes(cons.cfg) > cons.cfg.MEMORY_LIMIT)
        /\ cons.error = "memory limit not enough" =>
              /\ cons.pc = "raised"
              /\ cons.pools = 0
              /\ cons.parameter_allocator = -1
              /\ cons.variable_allocator = -1
              /\ cons.device = {}

\* an encoder-only configuration with overlap whose plan is over the limit
\* has ended with the attribute error, not with the insufficient-memory error
OverLimitAttributeError ==
    /\ cons.pc = "raised"
    /\ cons.error = "attribute_error"
    /\ cons.cfg.ENCODER_ONLY
    /\ cons.cfg.MEMORY_OVERLAP
    /\ PlannedBytes(cons.cfg) > cons.cfg.MEMORY_LIMIT
    /\ cons.pools = 0
    /\ cons.device = {}

\* a rejection one byte over the limit, in the strict double-buffer case
C5_Witness ==
    /\ cons.pc = "raised"
    /\ cons.error = "memory limit not enough"
    /\ cons.cfg.MEMORY_OVERLAP
    /\ OverlapLayers(cons.cfg) * 3 < MaxOverlapLayers(cons.cfg)
    /\ PlannedBytes(cons.cfg) = cons.cfg.MEMORY_LIMIT + 1

\* ---- properties of a pass -----------------------------------------------

\* the layers of the window that layer i belongs to
WindowOf(kind, i) ==
    LET W  == model.overlap_layers
        lo == (i \div W) * W
    IN  {<<kind, j>> : j \in lo..(Min(lo + W, NumLayers(kind)) - 1)}

\* C1: whenever the calc driver begins computing layer i, the layer is
\* DEVICE-resident in a slice that holds its data (the parameter pool if
\* i < W, otherwise a ring pool holding exactly the layer's window) and the
\* copy that placed it there has run on the load stream.
C1_LayerResidentAtCompute ==
    calc.pc = "forward" =>
        LET l == <<calc.kind, calc.i>> IN
        /\ l \in copied
        /\ l \notin Range(loadQ)
        /\ IF calc.i < model.overlap_layers
           THEN l \in param_pool
           ELSE \E idx \in 1..2 : l \in ring[idx] /\ ring[idx] = WindowOf(calc.kind, calc.i)

\* a decoder layer of a later window is about to be computed from a ring
\* pool that an earlier pass filled (no upload in this pass)
C1_Witness ==
    /\ calc.pc = "forward"
    /\ calc.kind = "dec"
    /\ calc.i >= model.overlap_layers
    /\ <<"dec", calc.i>> \in ring[2]
    /\ pass.uploads = 0
    /\ ctx.calls = 2

\* the layers the calc driver depends on: kernels in flight, and the rest of
\* the window whose rendezvous it has passed
PendingSlices == {k[3] : k \in Range(calcQ)}
RestOfWindow ==
    IF calc.pc \in {"breset", "forward"}
    THEN {l \in WindowOf(calc.kind, calc.i) : l[2] >= calc.i}
    ELSE {}

\* the ring pool the loader is resetting or filling, 0 if none
LoaderPool ==
    IF loader.pc \in {"reset", "upload", "settag"} THEN OverlapIdx(loader.i) + 1 ELSE 0

\* C2: a ring pool is never reset or written by a new upload while a layer
\* kernel reading it is in flight or while it holds a layer of the window
\* the calc driver is computing.
C2_NoResetUnderCompute ==
    \A idx \in 1..2 :
        (LoaderPool = idx \/ \E l \in Range(loadQ) : l \in ring[idx]) =>
            /\ idx \notin PendingSlices
            /\ RestOfWindow \cap ring[idx] = {}
            /\ \A l \in RestOfWindow : SliceOf(l) # -1

\* the loader is about to reset a pool that an earlier window of this pass
\* occupied, while a kernel of the window in the other pool is in flight
C2_Witness ==
    /\ loader.pc = "reset"
    /\ loader.i >= 2 * model.overlap_layers
    /\ ring[OverlapIdx(loader.i) + 1] # {}
    /\ calcQ # <<>>

\* the calc driver waits in barrier.wait() on a filling barrier that no
\* second party will reach: the loader thread has ended
CalcStranded ==
    /\ calc.pc = "bwaiting"
    /\ barrier.state = 0
    /\ loader.pc \in Terminated

\* C3: every rendezvous of a pass completes: the loader's wait is never
\* broken by the calc driver's barrier.reset(), and the calc driver never
\* waits on a barrier whose loader has ended.
C3_EveryRendezvousCompletes ==
    /\ loader.pc # "broken"
    /\ ~CalcStranded

\* C7: no decode pass runs at a position >= MAX_DECODER_LENGTH, and
\* step_pos never exceeds MAX_DECODER_LENGTH.
C7_OverflowRejected ==
    /\ (calc.kind = "dec" /\ calc.pc # "idle") => calc.step_pos < model.max_decoder_length
    /\ ctx.step_pos <= model.max_decoder_length

\* C8: in the n-th decode_step after init_decoder_context, the layers
\* 0, 1, ... are each handed position n - 1 in order, ctx.step_pos is n, no
\* position >= step_pos is handed, and a finished pass handed all Ld layers.
C8_StepPositions ==
    (calc.kind = "dec" /\ ctx.calls >= 1) =>
        /\ ctx.step_pos = ctx.calls
        /\ calc.step_pos = ctx.calls - 1
        /\ \A k \in 1..Len(pass.order) :
              /\ pass.order[k] = <<k - 1, ctx.calls - 1>>
              /\ pass.order[k][2] < ctx.step_pos
        /\ Len(pass.order) <= model.num_decoder
        /\ calc.pc \in {"final", "join", "idle"} => Len(pass.order) = model.num_decoder

\* the second decode_step of a request has returned, with several layers
C8_Witness ==
    /\ calc.kind = "dec"
    /\ calc.pc = "idle"
    /\ ctx.calls = 2
    /\ model.num_decoder >= 2
    /\ Len(pass.order) = model.num_decoder

\* C9: with overlap disabled, or W >= max(Le, Ld), a pass has one
\* rendezvous (before layer 0), resets no ring pool, uploads nothing, leaves
\* the status tags alone and computes layers 0, 1, ... in order from the
\* parameter pool.
C9_NoOverlapRun ==
    (~model.memory_overlap
     \/ model.overlap_layers >= Max(model.num_encoder, model.num_decoder)) =>
        /\ pass.rendezvous <= 1
        /\ (pass.order # <<>> \/ calc.pc \in {"forward", "final", "join"}) => pass.rendezvous = 1
        /\ pass.resets = 0
        /\ pass.uploads = 0
        /\ overlap_allocator_status = <<NoneTag, NoneTag>>
        /\ ring = <<{}, {}>>
        /\ loadQ = <<>>
        /\ loader.pc \notin {"reset", "upload", "settag", "crashed"}
        /\ \A k \in 1..Len(pass.order) : pass.order[k][1] = k - 1
        /\ \A k \in Range(calcQ) : k[3] = 0
        /\ calc.pc = "forward" => <<calc.kind, calc.i>> \in param_pool

\* a decode pass of a model with overlap enabled and W = Ld >= 3 has returned
C9_Witness ==
    /\ model.memory_overlap
    /\ model.overlap_layers = model.num_decoder
    /\ model.num_decoder >= 3
    /\ calc.kind = "dec"
    /\ calc.pc = "idle"
    /\ Len(pass.order) = model.num_decoder
    /\ pass.rendezvous = 1

\* ---- the results of the task drivers ------------------------------------

\* the sampled tokens cut at each sample equal to the sentinel expected
\* then (span_next first), the sentinels themselves left out
RECURSIVE SplitAtSentinels(_, _)
SplitAtSentinels(smp, next) ==
    IF smp = <<>> THEN << <<>> >>
    ELSE IF Head(smp) = GetSpan(next)
         THEN << <<>> >> \o SplitAtSentinels(Tail(smp), next + 1)
         ELSE LET rest == SplitAtSentinels(Tail(smp), next)
              IN  << <<Head(smp)>> \o Head(rest) >> \o Tail(rest)

FillBlankReturned ==
    req.pc = "returned" /\ req.task = "fill_blank" /\ req.stop # "error"

\* C11: fill_blank returns the blanks in input span order: the k-th entry
\* carries the k-th span position and the text of the tokens sampled between
\* the (k-1)-th and the k-th expected sentinel, with no expected sentinel
\* inside; there are min(S, 1 + expected sentinels sampled) entries.
C11_BlanksInSpanOrder ==
    FillBlankReturned =>
        LET ref == SplitAtSentinels(req.sampled, 1)
            n   == Min(req.S, Len(ref))
        IN  /\ Len(req.result) = n
            /\ \A k \in 1..n :
                 /\ req.result[k].position = req.spans_position[k]
                 /\ req.result[k].text = IdToText(ref[k])
                 /\ [word |-> "span", n |-> k] \notin Range(req.result[k].text)

C11_Witness ==
    /\ FillBlankReturned
    /\ Len(req.result) >= 2
    /\ req.result[1].text # <<>>
    /\ req.result[2].text # <<>>
    /\ \E k \in 1..Len(req.result[2].text) : req.result[2].text[k].word = "span"


\* the two sentences of the blank-fill scenarios
SentenceASB == <<"A">> \o SPAN_TOKEN \o <<"B">>
SentenceSSS == SPAN_TOKEN \o SPAN_TOKEN \o SPAN_TOKEN

AutoDetectedReturn == FillBlankReturned /\ ~req.spans_arg.given

\* offsets of the input at which a "<span>" marker starts
MarkerOffsets(s) == {p \in 0..Len(s) : StartsWithSpan(s, p)}

\* C12 as stated: with auto-detected spans fill_blank reports position 1 for
\* the span of "A<span>B" and position 0 for each of the three spans of
\* "<span><span><span>".
C12_ScenarioPositions ==
    AutoDetectedReturn =>
        /\ req.input_sentence = SentenceASB =>
              \A k \in 1..Len(req.result) : req.result[k].position = 1
        /\ req.input_sentence = SentenceSSS =>
              \A k \in 1..Len(req.result) : req.result[k].position = 0

\* C12 amended: the position reported for the k-th blank is the character
\* offset of the k-th "<span>" marker of the input: 1 for "A<span>B", and
\* 0, 6, 12 for the three spans of "<span><span><span>".
C12_MarkerOffsets ==
    AutoDetectedReturn =>
        /\ \A k \in 1..Len(req.result) :
             /\ req.result[k].position \in MarkerOffsets(req.input_sentence)
             /\ Cardinality({q \in MarkerOffsets(req.input_sentence) :
                               q < req.result[k].position}) = k - 1
        /\ req.input_sentence = SentenceASB =>
              \A k \in 1..Len(req.result) : req.result[k].position = 1
        /\ req.input_sentence = SentenceSSS =>
              \A k \in 1..Len(req.result) : req.result[k].position = 6 * (k - 1)

C12_Witness ==
    /\ AutoDetectedReturn
    /\ req.input_sentence = SentenceSSS
    /\ Len(req.result) = 3
    /\ req.result[3].position = 12


GenerateReturned ==
    req.pc = "returned" /\ req.task = "generate" /\ req.stop # "error"

\* the stop set of the claim: the ids of the caller's stop words and <eod>
StopSet(stop_tokens) == UNION {Range(stop_tokens[k].ids) : k \in 1..Len(stop_tokens)}

\* C13: generate stops at the first sampled token of the stop set (the
\* caller's stop tokens and <eod>): it returns the text of the tokens sampled
\* before it with the flag true; when none of the max_tokens samples is in
\* the stop set it returns all of them with the flag false.
C13_GenerateStops ==
    GenerateReturned =>
        LET smp   == req.sampled
            stops == {k \in 1..Len(smp) : smp[k] \in StopSet(req.stop_tokens)}
        IN  IF stops # {}
            THEN LET first == CHOOSE k \in stops : \A q \in stops : k <= q
                 IN  /\ Len(smp) = first
                     /\ req.result.text = IdToText(SubSeq(smp, 1, first - 1))
                     /\ req.result.stoped
            ELSE /\ Len(smp) = req.max_tokens
                 /\ req.result.text = IdToText(smp)
                 /\ ~req.result.stoped

\* the part of C13 that concerns <eod> alone
GenerateStopsAtEod ==
    GenerateReturned =>
        LET smp   == req.sampled
            stops == {k \in 1..Len(smp) : smp[k] = EodId}
        IN  IF stops # {}
            THEN LET first == CHOOSE k \in stops : \A q \in stops : k <= q
                 IN  /\ Len(smp) = first
                     /\ req.result.text = IdToText(SubSeq(smp, 1, first - 1))
                     /\ req.result.stoped
            ELSE /\ Len(smp) = req.max_tokens
                 /\ req.result.text = IdToText(smp)
                 /\ ~req.result.stoped


\* the error the claim expects for a sentence and a spans_position
\* argument: the number of spans first, then the positions
ExpectedSpanError(s, arg) ==
    LET n == IF arg.given THEN Len(arg.list) ELSE Cardinality(MarkerOffsets(s))
    IN  IF n = 0 THEN "No spans"
        ELSE IF n > 16 THEN "Too many spans"
        ELSE IF arg.given /\ \E k \in 1..n : arg.list[k] \notin MarkerOffsets(s)
             THEN "Wrong span token"
        ELSE "none"

\* C14: a call of fill_blank or generate raises NO_SPANS for zero spans,
\* else TOO_MANY_SPANS for more than 16, else INVALID_SPAN for a position
\* where the text does not start with "<span>"; it raises before encode: no
\* pass starts and ring pools, status tags and the context are unchanged.
\* Without such an error the encode pass starts.
C14_SpanErrorsBeforeEncode ==
    [][ (req.pc = "none" /\ req'.pc # "none") =>
          LET expected == ExpectedSpanError(req'.input_sentence, req'.spans_arg)
          IN  /\ raised' = expected
              /\ expected # "none" =>
                    /\ req'.pc = "returned"
                    /\ UNCHANGED <<overlap_allocator_status, ring, param_pool, copied,
                                   loadQ, calcQ, barrier, calc, loader, ctx, pass>>
              /\ expected = "none" => req'.pc = "encode" /\ calc'.pc = "sync"
      ]_vars

C14_Witness ==
    /\ req.pc = "returned"
    /\ raised = "Too many spans"
    /\ ~StartsWithSpan(req.input_sentence, 0)
    /\ overlap_allocator_status # <<NoneTag, NoneTag>>
    /\ ctx.ready
    /\ calc.pc = "idle"


\* the planner's requirement for a window W, in layers
LayersRequired(M, W) ==
    IF W >= M THEN 2 * M ELSE IF 3 * W >= M THEN W + M ELSE 4 * W

\* C15: with overlap enabled and OVERLAP_LAYERS unset, CPM2.__init__ chooses
\* the largest W in 1..M whose requirement in layers is at most
\* L = (MEMORY_LIMIT - DYNAMIC_MEMORY - 1235640320) div 226615296, and raises
\* "Memory is not enough" exactly when no W >= 1 fits.
C15_AutoWindowIsLargestFit ==
    cons.auto =>
        LET c    == cons.cfg
            M    == Max(c.NUM_ENCODER_LAYERS, c.NUM_DECODER_LAYERS)
            L    == (c.MEMORY_LIMIT - c.DYNAMIC_MEMORY - 1235640320 \div PageBytes)
                        \div (226615296 \div PageBytes)
            fits == {W \in 1..M : LayersRequired(M, W) <= L}
        IN  IF fits = {}
            THEN cons.pc = "raised" /\ cons.error = "Memory is not enough"
            ELSE /\ cons.error # "Memory is not enough"
                 /\ c.OVERLAP_LAYERS \in fits
                 /\ \A W \in fits : W <= c.OVERLAP_LAYERS

C15_Witness ==
    /\ cons.auto
    /\ cons.pc = "done"
    /\ cons.cfg.OVERLAP_LAYERS >= 2
    /\ cons.cfg.OVERLAP_LAYERS < Max(cons.cfg.NUM_ENCODER_LAYERS, cons.cfg.NUM_DECODER_LAYERS)


\* the layers self.__init__ moved to the parameter pool
PermanentOfModel ==
    LET W == IF model.memory_overlap THEN model.overlap_layers
             ELSE Max(model.num_encoder, model.num_decoder)
    IN  {<<"enc", i>> : i \in 0..(Min(W, model.num_encoder) - 1)}
        \cup (IF model.encoder_only THEN {}
              ELSE {<<"dec", i>> : i \in 0..(Min(W, model.num_decoder) - 1)})

\* C16: across encode and decode_step passes the permanent layers stay on
\* the device: the parameter pool keeps exactly the slices the constructor
\* gave out, their copies stay valid, and the loader resets ring pools only
\* and uploads (schedules copies of) layers with index >= W only.
C16_PermanentLayersStay ==
    /\ param_pool = PermanentOfModel
    /\ param_pool \subseteq copied
    /\ \A l \in ring[1] \cup ring[2] \cup Range(loadQ) :
         l \notin PermanentOfModel /\ l[2] >= model.overlap_layers
    /\ loader.pc = "upload" => loader.j >= model.overlap_layers

C16_Witness ==
    /\ model.memory_overlap
    /\ ctx.calls >= 2
    /\ pass.resets >= 1
    /\ loader.pc = "upload"
    /\ ring[1] # {}
    /\ calc.kind = "dec"
    /\ calcQ # <<>>
    /\ Head(calcQ)[3] = 0


\* C17: on an encoder-only model a call of init_decoder_context ends with
\* the "T5-encoder only" error and leaves the context as it was: nothing
\* allocated from the activation pool, no attribute set, no step_pos.
C17_EncoderOnlyRejected ==
    [][ (model.encoder_only /\ ctx.exists /\ req.pc = "none"
         /\ calc.pc = "idle" /\ calc'.pc = "idle") =>
            /\ raised' = "T5-encoder only"
            /\ ctx' = ctx
            /\ ctx'.allocated = {}
            /\ ctx'.attrs = {}
            /\ ctx'.step_pos = -1
            /\ ~ctx'.ready
      ]_vars

C17_Witness ==
    /\ model.encoder_only
    /\ raised = "T5-encoder only"
    /\ ctx.exists
    /\ ctx.allocated = {}
    /\ ~ctx.ready


\* the ring pools of the planner table for window W, M = max(Le, Ld) and
\* layer size s: <<pool A, pool B>>, -1 for an absent pool
PlannerTable(M, W, s) ==
    IF W >= M THEN <<-1, -1>>
    ELSE IF 2 * W >= M THEN <<-1, (M - W) * s>>
    ELSE IF 3 * W >= M THEN <<(M - 2 * W) * s, W * s>>
    ELSE <<W * s, W * s>>

\* C18: for every Le, Ld and W (taken up to M) the constructor creates the
\* ring pools of the planner table, and the parameter pool's overlap share
\* 2*W*s plus the ring capacities is the overlap_size of the memory check.
C18_RingPoolsFollowTable ==
    (cons.pc \in {"to_device", "prealloc", "cleanup", "done"} /\ cons.cfg.MEMORY_OVERLAP) =>
        LET c == cons.cfg
            M == Max(c.NUM_ENCODER_LAYERS, c.NUM_DECODER_LAYERS)
            W == Min(c.OVERLAP_LAYERS, M)
            s == Max(c.enc_nbytes, c.dec_nbytes)
        IN  /\ cons.overlap_allocator = PlannerTable(M, W, s)
            /\ cons.parameter_allocator - c.other_nbytes = 2 * W * s
            /\ 2 * W * s + RingBytes(cons.overlap_allocator) = cons.overlap_size

C18_Witness ==
    /\ cons.pc = "done"
    /\ cons.cfg.MEMORY_OVERLAP
    /\ cons.cfg.enc_nbytes # cons.cfg.dec_nbytes
    /\ cons.overlap_allocator[1] > 0
    /\ cons.overlap_allocator[1] < cons.overlap_allocator[2]
    /\ cons.cfg.NUM_ENCODER_LAYERS # cons.cfg.NUM_DECODER_LAYERS


\* the layers the loader uploads at boundary i of a pass over L layers
UploadWindow(kind, i, L) ==
    {<<kind, j>> : j \in (i + model.overlap_layers)..(Min(i + 2 * model.overlap_layers, L) - 1)}

\* C19: in every pass each upload at boundary i goes to ring pool
\* ((i+W) div W) mod 2; that pool exists, holds only layers of
\* [i+W, min(i+2W, L)) after its reset and never more than its capacity, so
\* no ring allocation fails and no absent pool is reset.
C19_RingPoolFits ==
    /\ loader.pc # "crashed"
    /\ \A k \in 1..2 :
         IF model.overlap_allocator[k] < 0
         THEN ring[k] = {}
         ELSE RingUsed(k) <= model.overlap_allocator[k]
    /\ loader.pc \in {"upload", "settag"} =>
         LET W   == model.overlap_layers
             idx == ((loader.i + W) \div W) % 2
             win == UploadWindow(calc.kind, loader.i, NumLayers(calc.kind))
         IN  /\ model.overlap_allocator[idx + 1] >= 0
             /\ ring[idx + 1] \subseteq win
             /\ Cardinality(win) * model.nbytes[calc.kind] <= model.overlap_allocator[idx + 1]
             /\ loader.pc = "settag" => ring[idx + 1] = win

C19_Witness ==
    /\ loader.pc = "settag"
    /\ ((loader.i + model.overlap_layers) \div model.overlap_layers) % 2 = 0
    /\ model.overlap_allocator[1] < model.overlap_allocator[2]
    /\ RingUsed(1) = model.overlap_allocator[1]
    /\ ring[2] # {}


\* the loader is at the tag test of boundary i and the target slot carries
\* the target tag
CacheHit ==
    /\ loader.pc = "check"
    /\ loader.i + model.overlap_layers < NumLayers(calc.kind)
    /\ overlap_allocator_status[(((loader.i + model.overlap_layers)
                                    \div model.overlap_layers) % 2) + 1]
         = (IF calc.kind = "enc" THEN loader.i + 1 ELSE -(loader.i + 1))

\* a pass of the phase that ran last, over at most 3W layers
RepeatedShortPass ==
    /\ calc.pc # "idle"
    /\ pass.prev = calc.kind
    /\ NumLayers(calc.kind) <= 3 * model.overlap_layers

\* C20: on a cache hit the loader's step does no reset and no upload and
\* leaves both tags as they are; a pass that repeats the phase of the pass
\* before it over L <= 3W layers resets and uploads nothing.
C20_CacheHitSkipsUpload ==
    /\ [](RepeatedShortPass =>
            /\ pass.resets = 0
            /\ pass.uploads = 0
            /\ overlap_allocator_status = pass.status0)
    /\ [][ (CacheHit /\ loader' # loader) =>
              /\ loader'.pc \notin {"reset", "upload", "settag", "crashed"}
              /\ UNCHANGED <<overlap_allocator_status, ring, loadQ, copied>>
              /\ pass'.resets = pass.resets
              /\ pass'.uploads = pass.uploads
         ]_vars

C20_Witness ==
    /\ calc.kind = "dec"
    /\ calc.pc = "join"
    /\ pass.prev = "dec"
    /\ 2 * model.overlap_layers < model.num_decoder
    /\ model.num_decoder <= 3 * model.overlap_layers
    /\ pass.rendezvous = 3
    /\ pass.uploads = 0
    /\ overlap_allocator_status = <<-(model.overlap_layers + 1), -1>>


\* the layers a slot holds under status tag t: the encoder window uploaded
\* at boundary t - 1 for t > 0, the decoder window of boundary -t - 1 for t < 0
TaggedWindow(t) ==
    IF t > 0 THEN UploadWindow("enc", t - 1, model.num_encoder)
    ELSE UploadWindow("dec", (-t) - 1, model.num_decoder)

\* the loader is at the tag test of boundary i and reads the target slot
ReadsTag ==
    /\ loader.pc = "check"
    /\ loader.i + model.overlap_layers < NumLayers(calc.kind)

\* the slot the loader reads at the tag test (1..2)
SlotRead == (((loader.i + model.overlap_layers) \div model.overlap_layers) % 2) + 1

\* C21: whenever the loader reads a slot's status tag at a window boundary,
\* a tag +(i+1) means the slot holds exactly the encoder layers
\* [i+W, min(i+2W, Le)) and a tag -(i+1) exactly the decoder layers
\* [i+W, min(i+2W, Ld)), every one of them uploaded since the slot's last
\* reset and its copy run; so a tag equal to the boundary's own tag (a cache
\* hit) is read only from a slot holding that boundary's window of the
\* phase of the pass.
C21_TagsNameContents ==
    ReadsTag =>
        LET t == overlap_allocator_status[SlotRead] IN
        /\ t # NoneTag =>
             /\ ring[SlotRead] = TaggedWindow(t)
             /\ ring[SlotRead] # {}
             /\ ring[SlotRead] \subseteq copied
             /\ \A l \in ring[SlotRead] : l \notin Range(loadQ) /\ l \notin param_pool
        /\ t = (IF calc.kind = "enc" THEN loader.i + 1 ELSE -(loader.i + 1)) =>
             ring[SlotRead] = UploadWindow(calc.kind, loader.i, NumLayers(calc.kind))

\* an encoder boundary reads the tag a decoder pass left on the slot, whose
\* magnitude is that of the boundary's own tag; the slot holds decoder layers
C21_Witness ==
    /\ ReadsTag
    /\ calc.kind = "enc"
    /\ model.num_encoder # model.num_decoder
    /\ overlap_allocator_status[SlotRead] = -(loader.i + 1)
    /\ \E l \in ring[SlotRead] : l[1] = "dec"
    /\ pass.prev = "dec"


\* the encoder and decoder layers the planner keeps permanently resident:
\* index < min(W, Le) and index < min(W, Ld)
FirstWindow(c) ==
    LET M == Max(c.NUM_ENCODER_LAYERS, c.NUM_DECODER_LAYERS)
        W == Min(c.OVERLAP_LAYERS, M)
    IN  {<<"enc", i>> : i \in 0..(Min(W, c.NUM_ENCODER_LAYERS) - 1)}
        \cup {<<"dec", i>> : i \in 0..(Min(W, c.NUM_DECODER_LAYERS) - 1)}

\* every encoder and decoder layer of the configuration
BlockLayers(c) ==
    {<<"enc", i>> : i \in 0..(c.NUM_ENCODER_LAYERS - 1)}
    \cup {<<"dec", i>> : i \in 0..(c.NUM_DECODER_LAYERS - 1)}

\* a constructor call with overlap enabled, 1 <= W <= max(Le, Ld), whose
\* plan fits the memory limit, has ended
OverlapConstructionEnded ==
    /\ cons.pc \in {"done", "raised"}
    /\ cons.cfg.MEMORY_OVERLAP
    /\ cons.cfg.OVERLAP_LAYERS >= 1
    /\ cons.cfg.OVERLAP_LAYERS <= Max(cons.cfg.NUM_ENCODER_LAYERS, cons.cfg.NUM_DECODER_LAYERS)
    /\ PlannedBytes(cons.cfg) <= cons.cfg.MEMORY_LIMIT

\* the residency the planner's partition asks for at the end of construction
PartitionedResidency ==
    /\ cons.pc = "done"
    /\ cons.error = "none"
    /\ cons.device = FirstWindow(cons.cfg) \cup OtherLayers
    /\ cons.removed = FirstWindow(cons.cfg) \cup OtherLayers
    /\ cons.pinned = BlockLayers(cons.cfg) \ FirstWindow(cons.cfg)

\* every index the clean-up loop used lies inside its list
AccessedWithinLists ==
    \A l \in cons.accessed :
        l[2] < (IF l[1] = "enc" THEN cons.cfg.NUM_ENCODER_LAYERS
                ELSE cons.cfg.NUM_DECODER_LAYERS)

\* C22: construction with overlap enabled succeeds for every configuration
\* with 1 <= W <= max(Le, Ld) that fits the memory limit, Le # Ld included;
\* afterwards exactly the encoder layers below min(W, Le), the decoder layers
\* below min(W, Ld) and the non-block layers are on the device with their
\* host copy removed, every other encoder / decoder layer was handed to
\* try_pinned, and no layer index outside its list was accessed.
C22_OverlapConstructionSucceeds ==
    OverlapConstructionEnded => (PartitionedResidency /\ AccessedWithinLists)

\* the same with both lists built and the window inside both, W <= min(Le, Ld)
OverlapConstructionWithinBoth ==
    (OverlapConstructionEnded
     /\ ~cons.cfg.ENCODER_ONLY
     /\ cons.cfg.OVERLAP_LAYERS <= Min(cons.cfg.NUM_ENCODER_LAYERS, cons.cfg.NUM_DECODER_LAYERS))
        => (PartitionedResidency /\ AccessedWithinLists)

\* the clean-up loop ends with an index error exactly when W exceeds the
\* shorter of the two lists
CleanupFailsOutsideLists ==
    (cons.pc \in {"done", "raised"} /\ cons.cfg.MEMORY_OVERLAP
     /\ cons.error \notin {"memory limit not enough", "attribute_error"}) =>
        /\ (cons.error = "index_error") <=> ~CleanupIndexesInRange(cons.cfg)
        /\ (cons.error = "index_error") <=> ~AccessedWithinLists

\* a construction with Le # Ld and min(Le, Ld) < W has ended in the
\* clean-up loop, after the pools were created and the first window uploaded
CleanupIndexError ==
    /\ OverlapConstructionEnded
    /\ cons.pc = "raised"
    /\ cons.error = "index_error"
    /\ cons.device = FirstWindow(cons.cfg) \cup OtherLayers
    /\ ~AccessedWithinLists


\* the loader thread of the failed pass waits in barrier.wait() on the
\* barrier of that pass
OrphanBlocked == orphan.pc = "bwaiting" /\ orphan.barrier.state = 0

\* a thread is resetting a ring pool, uploading into it or writing its tag
Mutating(pc) == pc \in {"reset", "upload", "settag"}

\* while a later pass runs, no loader of an earlier pass is blocked on its
\* barrier, resetting or uploading
NoEarlierLoaderAlive ==
    calc.pc # "idle" => ~(OrphanBlocked \/ Mutating(orphan.pc))

\* at most one loader mutates the ring pools and status tags
OneLoaderMutates == ~(Mutating(orphan.pc) /\ Mutating(loader.pc))

\* the permanent layers keep their slices of the parameter pool and their data
PermanentResidencyKept ==
    /\ param_pool = PermanentOfModel
    /\ param_pool \subseteq copied

\* C23: after the calc driver has failed in the middle of a pass, the loader
\* of that pass does not stay alive: while a later pass runs no loader of
\* an earlier pass is blocked on its barrier or resetting / uploading into
\* a ring pool, at most one loader mutates the ring pools and status tags
\* at any time, and the permanent layers stay resident.
C23_FailedPassLeavesNoLoader ==
    /\ NoEarlierLoaderAlive
    /\ OneLoaderMutates
    /\ PermanentResidencyKept

\* a later pass runs while the loader of the failed pass waits on the
\* barrier of that pass, which no thread will reach again
OrphanBlockedForever ==
    /\ calc.pc # "idle"
    /\ OrphanBlocked
    /\ orphan.barrier.count = 1
    /\ barrier.count = 0

\* the loader of the failed pass and the loader of the running pass are
\* both between the reset of a ring pool and the write of its tag
TwoLoadersMutate ==
    /\ Mutating(orphan.pc)
    /\ Mutating(loader.pc)
    /\ OverlapIdx(orphan.i) = OverlapIdx(loader.i)


====
